---- MODULE Spec2Model ----
(***************************************************************************)
(* A model of the parsing and resolution engine of fisk: Application.Parse *)
(* and the passes it runs (src/app.go), over the tokenizer, the parser and *)
(* the Value converters it calls.                                          *)
(*                                                                         *)
(* Strings that the tokenizer takes apart (raw arguments, values) are      *)
(* sequences of one-character strings; names are TLA+ strings.             *)
(***************************************************************************)
EXTENDS Integers, Sequences, FiniteSets, TLC

VARIABLES
    app,          \* the Application: clauses, settings, initialized
    args,         \* the argument vector of the Parse call
    pc,           \* position of the Parse call
    context,      \* the ParseContext of the call
    parseErr,     \* error returned by ParseContext
    setValuesErr, \* error returned by setValues
    selected,     \* command names collected by setValues
    flagValue,    \* bound value target of every flag, by name
    argValue,     \* bound value target of every argument, by name
    log,          \* callbacks dispatched so far, in order
    exits,        \* statuses the termination callback was invoked with
    passes,       \* the passes Parse has run, each with the error it returned
    result,       \* (command, err) returned by Parse
    calls,        \* number of Parse calls made on the application
    spawned       \* argument vectors of the plugin subprocesses started

vars == <<app, args, pc, context, parseErr, setValuesErr, selected,
          flagValue, argValue, log, exits, passes, result, calls, spawned>>

\* Longest argument vector handed to Parse.
MaxArgs == 2

\* Most Parse calls made on one application.
MaxCalls == 2

-----------------------------------------------------------------------------
(* Character sequences *)

RECURSIVE Join(_)
Join(s) == IF s = <<>> THEN "" ELSE Head(s) \o Join(Tail(s))

HasPrefix(s, p) == Len(s) >= Len(p) /\ SubSeq(s, 1, Len(p)) = p

\* Index of the first occurrence of character c in s, 0 when absent.
IndexOf(s, c) ==
    IF \E i \in 1..Len(s) : s[i] = c
    THEN CHOOSE i \in 1..Len(s) : s[i] = c /\ \A j \in 1..(i-1) : s[j] # c
    ELSE 0

Last(s) == s[Len(s)]
Front(s) == SubSeq(s, 1, Len(s) - 1)

RECURSIVE SeqToSet(_)
SeqToSet(s) == IF s = <<>> THEN {} ELSE {Head(s)} \cup SeqToSet(Tail(s))

\* All sequences over S of length at most n.
RECURSIVE SeqsUpTo(_, _)
SeqsUpTo(S, n) ==
    IF n = 0 THEN {<<>>}
    ELSE LET shorter == SeqsUpTo(S, n - 1)
         IN shorter \cup {Append(s, x) : s \in {t \in shorter : Len(t) = n - 1}, x \in S}

cTrue  == <<"t", "r", "u", "e">>
cFalse == <<"f", "a", "l", "s", "e">>
DashDash == <<"-", "-">>

Digits == {"0", "1", "2", "3", "4", "5", "6", "7", "8", "9"}
DigitVal(c) == CASE c = "0" -> 0 [] c = "1" -> 1 [] c = "2" -> 2 [] c = "3" -> 3
                 [] c = "4" -> 4 [] c = "5" -> 5 [] c = "6" -> 6 [] c = "7" -> 7
                 [] c = "8" -> 8 [] c = "9" -> 9

-----------------------------------------------------------------------------
(* Errors *)

NoErr == "nil"
ErrUnknownLongFlag      == "ErrUnknownLongFlag"
ErrUnknownShortFlag     == "ErrUnknownShortFlag"
ErrExpectedFlagArgument == "ErrExpectedFlagArgument"
ErrCommandNotSpecified  == "ErrCommandNotSpecified"
ErrSubCommandRequired   == "ErrSubCommandRequired"
ErrRequiredArgument     == "ErrRequiredArgument"
ErrRequiredFlag         == "ErrRequiredFlag"
ErrExpectedKnownCommand == "ErrExpectedKnownCommand"
ErrFlagCannotRepeat     == "ErrFlagCannotRepeat"
ErrUnexpectedArgument   == "ErrUnexpectedArgument"
ErrValue                == "value conversion error"
ErrStructural           == "structural error"
\* The error a callback of the program returns.
ErrCallback(cb) == "error of " \o cb.phase \o " " \o cb.owner \o " " \o cb.name

-----------------------------------------------------------------------------
(* Value converters *)

\* strconv.ParseBool
ParseBoolTrue  == {"1", "t", "T", "TRUE", "true", "True"}
ParseBoolFalse == {"0", "f", "F", "FALSE", "false", "False"}

RECURSIVE Atoi(_)
Atoi(s) == IF s = <<>> THEN 0 ELSE 10 * Atoi(Front(s)) + DigitVal(Last(s))

IsInt(s) == s # <<>> /\ \A i \in 1..Len(s) : s[i] \in Digits

BoolKinds == {"bool", "unnegbool"}

\* boolFlag capability: IsBoolFlag, IsNegatable
IsBoolFlag(kind)   == kind \in BoolKinds
IsNegatable(kind)  == kind = "bool"
\* repeatableFlag capability
IsCumulative(kind) == kind = "strings"

ZeroValue(kind) ==
    CASE kind \in BoolKinds -> FALSE
      [] kind = "string"    -> ""
      [] kind = "int"       -> 0
      [] kind = "strings"   -> <<>>

\* Value.Set: the converter of a kind applied to string s with the target
\* holding cur; ok is FALSE when the converter rejects s.
ValueSet(kind, cur, s) ==
    CASE kind \in BoolKinds ->
           IF Join(s) \in ParseBoolTrue THEN [ok |-> TRUE, val |-> TRUE]
           ELSE IF Join(s) \in ParseBoolFalse THEN [ok |-> TRUE, val |-> FALSE]
           ELSE [ok |-> FALSE, val |-> cur]
      [] kind = "string"  -> [ok |-> TRUE, val |-> Join(s)]
      [] kind = "int"     -> IF IsInt(s) THEN [ok |-> TRUE, val |-> Atoi(s)]
                             ELSE [ok |-> FALSE, val |-> cur]
      [] kind = "strings" -> [ok |-> TRUE, val |-> Append(cur, Join(s))]

-----------------------------------------------------------------------------
(* Clauses *)

\* A FlagClause: Flag(name, help) followed by the value type.  owner is ""
\* for the application and the full command path for a command.
Flag(name, short, kind, owner) ==
    [name |-> name, short |-> short, kind |-> kind, owner |-> owner,
     required |-> FALSE, defaults |-> <<>>, envar |-> "",
     preAction |-> "none", action |-> FALSE]

\* An ArgClause.
Arg(name, kind, owner) ==
    [name |-> name, kind |-> kind, owner |-> owner,
     required |-> FALSE, defaults |-> <<>>, envar |-> "",
     preAction |-> "none", action |-> FALSE]

\* A CmdClause; parent is the full path of the owning command, "" for the
\* application, and pluginDelegator is <<>> for nil.
FullCommand(parent, name) == IF parent = "" THEN name ELSE parent \o " " \o name

Cmd(name, parent) ==
    [name |-> name, parent |-> parent, full |-> FullCommand(parent, name),
     preAction |-> "none", action |-> FALSE, validator |-> FALSE,
     pluginDelegator |-> <<>>]

\* The flags New registers on every application.
BuiltinFlags ==
    << Flag("help", "", "unnegbool", ""),
       [Flag("help-long", "", "unnegbool", "") EXCEPT !.preAction = "usage"],
       [Flag("help-compact", "", "unnegbool", "") EXCEPT !.preAction = "usage"],
       [Flag("help-man", "", "unnegbool", "") EXCEPT !.preAction = "usage"],
       Flag("completion-bash", "", "unnegbool", ""),
       [Flag("completion-script-bash", "", "unnegbool", "") EXCEPT !.preAction = "usage"],
       [Flag("completion-script-zsh", "", "unnegbool", "") EXCEPT !.preAction = "usage"] >>

\* New(name, help) with Terminate left at os.Exit.
New(name) ==
    [Name |-> name, initialized |-> FALSE,
     flags |-> BuiltinFlags, args |-> <<>>, cmds |-> <<>>,
     preActions |-> <<>>, actions |-> <<>>, validator |-> FALSE,
     noInterspersed |-> FALSE, terminateReturns |-> FALSE,
     env |-> {}, failing |-> {}]

\* Application.Version: the --version flag, whose pre-action prints the
\* version and terminates with status 0.
VersionFlag == [Flag("version", "", "unnegbool", "") EXCEPT !.preAction = "version"]

Version(a) == [a EXCEPT !.flags = Append(@, VersionFlag)]

\* Interspersed that stores its argument without negating it.
InterspersedStoredAsIs(a, interspersed) == [a EXCEPT !.noInterspersed = interspersed]

\* Application.Interspersed
Interspersed(a, interspersed) == [a EXCEPT !.noInterspersed = ~interspersed]

\* Application.Terminate(nil), or a callback that returns.
Terminate(a) == [a EXCEPT !.terminateReturns = TRUE]

\* The HelpCommand that init adds: a "help" command whose pre-action writes
\* usage and terminates, with the cumulative argument "command".
HelpCommand == [Cmd("help", "") EXCEPT !.preAction = "usage"]
HelpCommandArg == Arg("command", "strings", "help")

\* os.Getenv over the environment of the application: <<>> when unset.
Getenv(a, name) ==
    IF \E e \in a.env : e.name = name
    THEN (CHOOSE e \in a.env : e.name = name).value
    ELSE <<>>

\* cmdGroup.have / argGroup.have of an owner
Commands(a, owner) == SelectSeq(a.cmds, LAMBDA c : c.parent = owner)
CmdHave(a, owner) == Commands(a, owner) # <<>>
ArgsOf(a, owner) == SelectSeq(a.args, LAMBDA x : x.owner = owner)
FlagsOf(a, owner) == SelectSeq(a.flags, LAMBDA f : f.owner = owner)

-----------------------------------------------------------------------------
(* Tokenizer and ParseContext *)

Token(type, value) == [type |-> type, value |-> value]

\* tokenize(args, ignoreDefault): a fresh ParseContext over args.
\* setByUser holds the clauses whose IsSetByUser cell the parse has set;
\* the cells are false when the clauses are declared.
tokenize(rawArgs, ignoreDefault) ==
    [ignoreDefault |-> ignoreDefault, argsOnly |-> FALSE, peek |-> <<>>,
     argi |-> 0, args |-> rawArgs, rawArgs |-> rawArgs,
     owners |-> <<>>, argumenti |-> 0, Elements |-> <<>>,
     SelectedCommand |-> "", setByUser |-> {}]

\* FlagClause.isSetByUser / ArgClause.isSetByUser: *setByUser = true
isSetByUser(p, kind, name) == [p EXCEPT !.setByUser = @ \cup {<<kind, name>>}]

\* ParseContext.flags and ParseContext.arguments: the clauses of the groups
\* merged so far (application first, then each matched command).
ContextFlags(a, p) == SelectSeq(a.flags, LAMBDA f : f.owner \in SeqToSet(p.owners))

RECURSIVE ArgsOfOwners(_, _)
ArgsOfOwners(a, owners) ==
    IF owners = <<>> THEN <<>>
    ELSE ArgsOf(a, Head(owners)) \o ArgsOfOwners(a, Tail(owners))

ContextArgs(a, p) == ArgsOfOwners(a, p.owners)

\* mergeFlags and mergeArgs of one group
Merge(p, owner) == [p EXCEPT !.owners = Append(@, owner)]

LongFlag(a, p, name) ==
    LET m == SelectSeq(ContextFlags(a, p), LAMBDA f : f.name = name)
    IN IF m = <<>> THEN <<>> ELSE <<Last(m)>>

ShortFlag(a, p, short) ==
    LET m == SelectSeq(ContextFlags(a, p), LAMBDA f : f.short # "" /\ f.short = short)
    IN IF m = <<>> THEN <<>> ELSE <<Last(m)>>

\* ShortRun that gives the rest to every known flag, boolean or not.
ShortRunRestIsValue(q, short, rest, flag) ==
    [tok |-> Token("short", <<short>>),
     ctx |-> IF rest # <<>> /\ flag # <<>>
             THEN [q EXCEPT !.peek = Append(@, Token("arg", rest))]
             ELSE IF rest # <<>>
             THEN [q EXCEPT !.args = <<(<<"-">> \o rest)>> \o @]
             ELSE q]

\* ParseContext.Next on a short-flag run -<short><rest>: flag is the flag
\* of the character, <<>> when unknown; q is the context past the raw
\* argument.  A flag that takes a value takes the rest as its value; after
\* a boolean or unknown character the rest is a further run.
ShortRun(q, short, rest, flag) ==
    IF flag # <<>> /\ ~IsBoolFlag(flag[1].kind)
    THEN [tok |-> Token("short", <<short>>),
          ctx |-> IF rest # <<>>
                  THEN [q EXCEPT !.peek = Append(@, Token("arg", rest))]
                  ELSE q]
    ELSE [tok |-> Token("short", <<short>>),
          ctx |-> IF rest # <<>>
                  THEN [q EXCEPT !.args = <<(<<"-">> \o rest)>> \o @]
                  ELSE q]

\* ParseContext.Next: the next token and the context after taking it.
RECURSIVE NextToken(_, _)
NextToken(a, p) ==
    IF p.peek # <<>>
    THEN [tok |-> Last(p.peek), ctx |-> [p EXCEPT !.peek = Front(@)]]
    ELSE IF p.args = <<>>
    THEN [tok |-> Token("eol", <<>>), ctx |-> p]
    ELSE
      LET arg == Head(p.args)
          q   == [p EXCEPT !.args = Tail(@), !.argi = @ + 1]
      IN IF p.argsOnly
         THEN [tok |-> Token("arg", arg), ctx |-> q]
         ELSE IF arg = DashDash
         THEN NextToken(a, [q EXCEPT !.argsOnly = TRUE])
         ELSE IF HasPrefix(arg, DashDash)
         THEN LET body == SubSeq(arg, 3, Len(arg))
                  eq   == IndexOf(body, "=")
              IN IF eq = 0
                 THEN [tok |-> Token("long", body), ctx |-> q]
                 ELSE [tok |-> Token("long", SubSeq(body, 1, eq - 1)),
                       ctx |-> [q EXCEPT !.peek =
                                  Append(@, Token("arg", SubSeq(body, eq + 1, Len(body))))]]
         ELSE IF HasPrefix(arg, <<"-">>)
         THEN IF Len(arg) = 1
              THEN [tok |-> Token("short", <<>>), ctx |-> q]
              ELSE ShortRun(q, arg[2], SubSeq(arg, 3, Len(arg)),
                            ShortFlag(a, p, arg[2]))
         ELSE [tok |-> Token("arg", arg), ctx |-> q]

\* ParseContext.Peek: the next token, left in place.
PeekPush(n) == [tok |-> n.tok, ctx |-> [n.ctx EXCEPT !.peek = Append(@, n.tok)]]

Peek(a, p) ==
    IF p.peek # <<>>
    THEN [tok |-> Last(p.peek), ctx |-> p]
    ELSE PeekPush(NextToken(a, p))

EOL(a, p) == Peek(a, p).tok.type = "eol"

Element(kind, name, value) == [kind |-> kind, name |-> name, value |-> value]

\* nextArg: the argument the next positional fills, <<>> when exhausted; a
\* cumulative argument consumes the remainder and is never passed.
NextArgClause(a, p) ==
    LET arguments == ContextArgs(a, p)
    IN IF p.argumenti >= Len(arguments) THEN <<>>
       ELSE <<arguments[p.argumenti + 1]>>

AdvanceArg(a, p) ==
    LET c == NextArgClause(a, p)
    IN IF c # <<>> /\ ~IsCumulative(c[1].kind)
       THEN [p EXCEPT !.argumenti = @ + 1] ELSE p

-----------------------------------------------------------------------------
(* Parser *)

NoPrefix == <<"n", "o", "-">>

\* ResolveLong that negates every boolean flag, negatable or not.
ResolveLongNegatesAnyBool(a, p, value) ==
    IF LongFlag(a, p, Join(value)) # <<>>
    THEN [flag |-> LongFlag(a, p, Join(value)), invert |-> HasPrefix(value, NoPrefix)]
    ELSE IF /\ HasPrefix(value, NoPrefix)
            /\ LongFlag(a, p, Join(SubSeq(value, 4, Len(value)))) # <<>>
            /\ IsBoolFlag(LongFlag(a, p, Join(SubSeq(value, 4, Len(value))))[1].kind)
    THEN [flag |-> LongFlag(a, p, Join(SubSeq(value, 4, Len(value)))), invert |-> TRUE]
    ELSE [flag |-> <<>>, invert |-> FALSE]

\* The flag a long-flag token resolves to: [flag, invert], flag = <<>> when
\* the token names no flag.  A flag literally named no-<x> takes precedence
\* over the negated form of <x>; the negated form exists for negatable
\* booleans only.
ResolveLong(a, p, value) ==
    LET literal == LongFlag(a, p, Join(value))
    IN IF literal # <<>>
       THEN [flag |-> literal, invert |-> HasPrefix(value, NoPrefix)]
       ELSE IF HasPrefix(value, NoPrefix)
       THEN LET target == LongFlag(a, p, Join(SubSeq(value, 4, Len(value))))
            IN IF target # <<>> /\ IsBoolFlag(target[1].kind) /\ IsNegatable(target[1].kind)
               THEN [flag |-> target, invert |-> TRUE]
               ELSE [flag |-> <<>>, invert |-> TRUE]
       ELSE [flag |-> <<>>, invert |-> FALSE]

\* flagGroup.parse, the value of a flag that takes one: vk is the peeked
\* token after the flag token.
flagParseValue(a, flag, vk) ==
    IF vk.tok.type # "arg"
    THEN [ctx |-> vk.ctx, flag |-> <<>>, err |-> ErrExpectedFlagArgument]
    ELSE [ctx |-> [NextToken(a, vk.ctx).ctx EXCEPT !.Elements =
                     Append(@, Element("flag", flag.name, vk.tok.value))],
          flag |-> <<flag>>, err |-> NoErr]

\* flagGroup.parse of a resolved flag that takes the negated form of a
\* boolean for the flag itself.
flagParseMatchedNeverInverts(a, flag, invert, p1) ==
    IF IsBoolFlag(flag.kind)
    THEN [ctx |-> [p1 EXCEPT !.Elements = Append(@, Element("flag", flag.name, cTrue))],
          flag |-> <<flag>>, err |-> NoErr]
    ELSE flagParseValue(a, flag, Peek(a, p1))

\* flagGroup.parse, a resolved flag: p1 is the context after the flag token.
\* A boolean flag takes no token: its value is "true", or "false" when
\* the token was the negated form.
flagParseMatched(a, flag, invert, p1) ==
    IF IsBoolFlag(flag.kind)
    THEN [ctx |-> [p1 EXCEPT !.Elements =
                     Append(@, Element("flag", flag.name,
                                       IF invert THEN cFalse ELSE cTrue))],
          flag |-> <<flag>>, err |-> NoErr]
    ELSE flagParseValue(a, flag, Peek(a, p1))

\* flagGroup.parse that leaves the cell of a flag alone when the token is
\* its negated form.
flagParseResolvedUnlessInverted(a, pk, res) ==
    IF res.flag = <<>>
    THEN [ctx |-> pk.ctx, flag |-> <<>>,
          err |-> IF pk.tok.type = "long" THEN ErrUnknownLongFlag
                  ELSE ErrUnknownShortFlag]
    ELSE flagParseMatched(a, res.flag[1], res.invert,
           IF res.invert THEN NextToken(a, pk.ctx).ctx
           ELSE isSetByUser(NextToken(a, pk.ctx).ctx, "flag", res.flag[1].name))

\* flagGroup.parse, after the lookup of the token pk.tok: the token is
\* consumed and the flag is marked as set by the user before its value is
\* looked at.
flagParseResolved(a, pk, res) ==
    IF res.flag = <<>>
    THEN [ctx |-> pk.ctx, flag |-> <<>>,
          err |-> IF pk.tok.type = "long" THEN ErrUnknownLongFlag
                  ELSE ErrUnknownShortFlag]
    ELSE flagParseMatched(a, res.flag[1], res.invert,
           isSetByUser(NextToken(a, pk.ctx).ctx, "flag", res.flag[1].name))

flagParseToken(a, pk) ==
    flagParseResolved(a, pk,
        IF pk.tok.type = "long"
        THEN ResolveLong(a, pk.ctx, pk.tok.value)
        ELSE [flag |-> ShortFlag(a, pk.ctx, Join(pk.tok.value)), invert |-> FALSE])

\* flagGroup.parse: match the flag token at the head of the stream;
\* [ctx, flag, err].
flagGroupParse(a, p0) == flagParseToken(a, Peek(a, p0))

\* matchedArg / matchedCmd
matchedArg(p, arg, value) ==
    [isSetByUser(p, "arg", arg.name)
       EXCEPT !.Elements = Append(@, Element("arg", arg.name, value))]

matchedCmd(p, cmd) ==
    [Merge(p, cmd.full) EXCEPT !.Elements = Append(@, Element("cmd", cmd.full, <<>>)),
                               !.SelectedCommand = cmd.full]

LookupCommand(a, owner, name) ==
    SelectSeq(Commands(a, owner), LAMBDA c : c.name = name)

\* The loop of parse: st is [ctx, cmds, ignoreDefault, err, stop].
RECURSIVE ParseLoop(_, _)

\* parse, a flag token: r is the result of flagGroup.parse.
parseFlag(a, st, r) ==
    ParseLoop(a, [st EXCEPT !.ctx = r.ctx, !.err = r.err,
                            !.ignoreDefault =
                               @ \/ (r.flag # <<>> /\ r.flag[1].name = "help")])

\* parse, a positional token that fills argument arg: when flags are not
\* interspersed every later token is positional.
parseArg(a, st, p, arg, value) ==
    ParseLoop(a, [st EXCEPT !.ctx =
        NextToken(a, matchedArg(AdvanceArg(a, IF a.noInterspersed
                                              THEN [p EXCEPT !.argsOnly = TRUE]
                                              ELSE p),
                                arg, value)).ctx])

\* parse, a positional token where commands are expected: cmd is the
\* command it names, <<>> when none.
parseCmd(a, st, p, cmd) ==
    IF cmd = <<>>
    THEN [st EXCEPT !.ctx = p, !.err = ErrExpectedKnownCommand]
    ELSE ParseLoop(a, [st EXCEPT
            !.ctx = NextToken(a, matchedCmd(p, cmd[1])).ctx,
            !.cmds = cmd[1].full,
            !.ignoreDefault = @ \/ cmd[1].full = "help"])

\* parse, a positional token: an argument first, then a command.
parsePositional(a, st, pk, arg) ==
    IF arg # <<>>
    THEN parseArg(a, st, pk.ctx, arg[1], pk.tok.value)
    ELSE IF CmdHave(a, st.cmds)
    THEN parseCmd(a, st, pk.ctx, LookupCommand(a, st.cmds, Join(pk.tok.value)))
    ELSE [st EXCEPT !.ctx = pk.ctx, !.stop = TRUE]

\* parse, one token: pk is the peeked token.
parseToken(a, st, pk) ==
    IF pk.tok.type = "eol"
    THEN [st EXCEPT !.ctx = pk.ctx, !.stop = TRUE]
    ELSE IF pk.tok.type \in {"long", "short"}
    THEN parseFlag(a, st, flagGroupParse(a, pk.ctx))
    ELSE parsePositional(a, st, pk, NextArgClause(a, pk.ctx))

ParseLoop(a, st) ==
    IF st.err # NoErr \/ st.stop THEN st
    ELSE parseToken(a, st, Peek(a, st.ctx))

\* parse, after the loop: a token left over is an unexpected argument.
parseEnd(a, st) ==
    IF st.err # NoErr THEN [ctx |-> st.ctx, err |-> st.err]
    ELSE IF ~EOL(a, st.ctx) THEN [ctx |-> st.ctx, err |-> ErrUnexpectedArgument]
    ELSE [ctx |-> st.ctx, err |-> NoErr]

\* parse(context, app): walk the token stream; the context and the error.
parse(a, context0) ==
    parseEnd(a, ParseLoop(a, [ctx |-> Merge(context0, ""), cmds |-> "",
                              ignoreDefault |-> context0.ignoreDefault,
                              err |-> NoErr, stop |-> FALSE]))

-----------------------------------------------------------------------------
(* Structural validation *)

HasDuplicates(seq) == \E i, j \in 1..Len(seq) : i < j /\ seq[i] = seq[j]

RECURSIVE MapName(_)
MapName(seq) == IF seq = <<>> THEN <<>> ELSE <<Head(seq).name>> \o MapName(Tail(seq))

RECURSIVE MapShort(_)
MapShort(seq) == IF seq = <<>> THEN <<>> ELSE <<Head(seq).short>> \o MapShort(Tail(seq))

\* FlagClause.init
flagInit(f) ==
    IF ~IsCumulative(f.kind) /\ Len(f.defaults) > 1 THEN ErrStructural ELSE NoErr

\* flagGroup.init of one group: no two flags of the group share a long name
\* or a short character, and every flag passes its own init.
flagGroupInit(a, owner) ==
    LET flags  == FlagsOf(a, owner)
        shorts == SelectSeq(MapShort(flags), LAMBDA c : c # "")
    IN IF HasDuplicates(MapName(flags)) \/ HasDuplicates(shorts) THEN ErrStructural
       ELSE IF \E i \in 1..Len(flags) : flagInit(flags[i]) # NoErr THEN ErrStructural
       ELSE NoErr

\* argGroup.init of one group: no required argument after an optional one,
\* and a cumulative argument only in last position.
argGroupInit(a, owner) ==
    LET as == ArgsOf(a, owner)
    IN IF \E i, j \in 1..Len(as) : i < j /\ ~as[i].required /\ as[j].required
       THEN ErrStructural
       ELSE IF \E i \in 1..Len(as) : i < Len(as) /\ IsCumulative(as[i].kind)
       THEN ErrStructural
       ELSE IF HasDuplicates(MapName(as)) THEN ErrStructural
       ELSE NoErr

\* CmdClause.init of every command, and cmdGroup.init
cmdInit(a) ==
    IF \E i \in 1..Len(a.cmds) :
          \/ flagGroupInit(a, a.cmds[i].full) # NoErr
          \/ argGroupInit(a, a.cmds[i].full) # NoErr
          \/ (ArgsOf(a, a.cmds[i].full) # <<>> /\ CmdHave(a, a.cmds[i].full))
    THEN ErrStructural
    ELSE IF \E o \in {""} \cup {a.cmds[i].full : i \in 1..Len(a.cmds)} :
               HasDuplicates(MapName(Commands(a, o)))
    THEN ErrStructural
    ELSE NoErr

\* The ancestors of a command, the application ("") included.
RECURSIVE Ancestors(_, _)
Ancestors(a, cmd) ==
    IF cmd.parent = "" THEN {""}
    ELSE LET up == SelectSeq(a.cmds, LAMBDA c : c.full = cmd.parent)
         IN {cmd.parent} \cup (IF up = <<>> THEN {""} ELSE Ancestors(a, up[1]))

\* checkDuplicateFlags that compares long names only.
checkDuplicateFlagsLongOnly(a) ==
    IF \E i \in 1..Len(a.cmds) : \E j, k \in 1..Len(a.flags) :
          /\ a.flags[j].owner = a.cmds[i].full
          /\ a.flags[k].owner \in Ancestors(a, a.cmds[i])
          /\ a.flags[j].name = a.flags[k].name
    THEN ErrStructural ELSE NoErr

\* checkDuplicateFlags over the whole command tree: a flag of a command may
\* share neither long name nor short character with a flag of an ancestor.
checkDuplicateFlags(a) ==
    IF \E i \in 1..Len(a.cmds) : \E j, k \in 1..Len(a.flags) :
          /\ a.flags[j].owner = a.cmds[i].full
          /\ a.flags[k].owner \in Ancestors(a, a.cmds[i])
          /\ \/ a.flags[j].name = a.flags[k].name
             \/ a.flags[j].short # "" /\ a.flags[j].short = a.flags[k].short
    THEN ErrStructural ELSE NoErr

\* Application.init, the checks over the clauses.
initChecks(b) ==
    IF flagGroupInit(b, "") # NoErr THEN ErrStructural
    ELSE IF cmdInit(b) # NoErr THEN ErrStructural
    ELSE IF argGroupInit(b, "") # NoErr THEN ErrStructural
    ELSE checkDuplicateFlags(b)

initResult(b, err) ==
    IF err # NoErr THEN [app |-> b, err |-> err]
    ELSE [app |-> [b EXCEPT !.initialized = TRUE], err |-> NoErr]

initClauses(b) == initResult(b, initChecks(b))

\* Application.init: [app, err].  The help command is registered before
\* the checks; initialized is set only when every check passed.
init(a) ==
    IF a.initialized THEN [app |-> a, err |-> NoErr]
    ELSE IF CmdHave(a, "") /\ ArgsOf(a, "") # <<>>
    THEN [app |-> a, err |-> ErrStructural]
    ELSE initClauses(IF CmdHave(a, "")
                     THEN [a EXCEPT !.cmds = <<HelpCommand>> \o @,
                                    !.args = Append(@, HelpCommandArg)]
                     ELSE a)

parseContextResult(b, r) == [app |-> b, ctx |-> <<r.ctx>>, err |-> r.err]

\* parseContext that parses whatever init returned.
parseContextInitUnchecked(i, ignoreDefault, rawArgs) ==
    parseContextResult(i.app, parse(i.app, tokenize(rawArgs, ignoreDefault)))

parseContextInit(i, ignoreDefault, rawArgs) ==
    IF i.err # NoErr THEN [app |-> i.app, ctx |-> <<>>, err |-> i.err]
    ELSE parseContextResult(i.app, parse(i.app, tokenize(rawArgs, ignoreDefault)))

\* Application.parseContext: [app, ctx, err]; ctx is <<>> for a nil context.
parseContext(a, ignoreDefault, rawArgs) ==
    parseContextInit(init(a), ignoreDefault, rawArgs)

-----------------------------------------------------------------------------
(* Defaults and required clauses *)

LF == "\n"
CR == "\r"

\* The separator "\r?\n" ends at i: the index where it starts.
SepStart(s, i) == IF i > 1 /\ s[i - 1] = CR THEN i - 1 ELSE i

\* GetSplitEnvarValue: one trailing line end is trimmed, the rest is split
\* at every line end.
RECURSIVE SplitLines(_)
SplitLines(s) ==
    LET i == IndexOf(s, LF)
    IN IF i = 0 THEN <<s>>
       ELSE <<SubSeq(s, 1, SepStart(s, i) - 1)>> \o SplitLines(SubSeq(s, i + 1, Len(s)))

GetSplitEnvarValue(v) ==
    IF v = <<>> THEN <<>>
    ELSE IF Last(v) = LF THEN SplitLines(SubSeq(v, 1, SepStart(v, Len(v)) - 1))
    ELSE SplitLines(v)

\* Value.Set of each string in turn, stopping at the first one rejected.
RECURSIVE SetAll(_, _, _)
SetAll(kind, cur, strs) ==
    IF strs = <<>> THEN [ok |-> TRUE, val |-> cur]
    ELSE LET r == ValueSet(kind, cur, Head(strs))
         IN IF r.ok THEN SetAll(kind, r.val, Tail(strs)) ELSE r

\* envarMixin.GetEnvarValue / HasEnvarValue
GetEnvarValue(a, c) == IF c.envar = "" THEN <<>> ELSE Getenv(a, c.envar)
HasEnvarValue(a, c) == GetEnvarValue(a, c) # <<>>

\* setDefault that takes the declared defaults when there are any and the
\* environment variable otherwise.
setDefaultPrefersDeclared(a, c, cur) ==
    IF c.defaults # <<>> \/ ~HasEnvarValue(a, c) THEN SetAll(c.kind, cur, c.defaults)
    ELSE IF ~IsCumulative(c.kind) THEN ValueSet(c.kind, cur, GetEnvarValue(a, c))
    ELSE SetAll(c.kind, cur, GetSplitEnvarValue(GetEnvarValue(a, c)))

\* setDefault that never reads the environment.
setDefaultIgnoresEnvar(a, c, cur) == SetAll(c.kind, cur, c.defaults)

\* FlagClause.setDefault / ArgClause.setDefault: the environment variable
\* when it has a value, else the declared defaults.
setDefault(a, c, cur) ==
    IF HasEnvarValue(a, c)
    THEN IF ~IsCumulative(c.kind)
         THEN ValueSet(c.kind, cur, GetEnvarValue(a, c))
         ELSE SetAll(c.kind, cur, GetSplitEnvarValue(GetEnvarValue(a, c)))
    ELSE SetAll(c.kind, cur, c.defaults)

\* FlagClause.needsValue / ArgClause.needsValue
needsValue(a, c) ==
    c.required /\ ~(Len(c.defaults) > 0 \/ HasEnvarValue(a, c))

HasElement(p, kind, name) ==
    \E i \in 1..Len(p.Elements) : p.Elements[i].kind = kind /\ p.Elements[i].name = name

\* The argument loop of setDefaults, in declaration order.
RECURSIVE setArgDefaults(_, _, _, _)
setArgDefaults(a, p, arguments, av) ==
    IF arguments = <<>> THEN [argValue |-> av, err |-> NoErr]
    ELSE LET arg == Head(arguments)
         IN IF HasElement(p, "arg", arg.name)
            THEN setArgDefaults(a, p, Tail(arguments), av)
            ELSE LET r == setDefault(a, arg, av[arg.name])
                     nv == [av EXCEPT ![arg.name] = r.val]
                 IN IF r.ok THEN setArgDefaults(a, p, Tail(arguments), nv)
                    ELSE [argValue |-> nv, err |-> ErrValue]

\* setDefaults that leaves the arguments alone.
setDefaultsOfFlagsOnly(a, p, fv, av) ==
    IF HasElement(p, "flag", "help")
    THEN {[flagValue |-> fv, argValue |-> av, err |-> NoErr]}
    ELSE LET flags == ContextFlags(a, p)
             due(n) == {i \in 1..Len(flags) :
                           flags[i].name = n /\ ~HasElement(p, "flag", n)}
         IN {[flagValue |-> [n \in DOMAIN fv |->
                               IF due(n) = {} THEN fv[n]
                               ELSE setDefault(a, flags[CHOOSE i \in due(n) : TRUE],
                                               fv[n]).val],
              argValue |-> av, err |-> NoErr]}

\* setDefaults that converts the defaults of every clause of the
\* application first, matched or not.
setDefaultsChecksEveryClause(a, p, fv, av) ==
    IF \/ \E i \in 1..Len(a.flags) :
             ~SetAll(a.flags[i].kind, ZeroValue(a.flags[i].kind), a.flags[i].defaults).ok
       \/ \E i \in 1..Len(a.args) :
             ~SetAll(a.args[i].kind, ZeroValue(a.args[i].kind), a.args[i].defaults).ok
    THEN {[flagValue |-> fv, argValue |-> av, err |-> ErrValue]}
    ELSE setDefaultsOfFlagsOnly(a, p, fv, av)

\* Application.setDefaults: every outcome [flagValue, argValue, err].  The
\* flags are visited in the iteration order of a map, so when a default is
\* rejected the flags already given their default are any of the others.
setDefaults(a, p, fv, av) ==
    IF HasElement(p, "flag", "help")
    THEN {[flagValue |-> fv, argValue |-> av, err |-> NoErr]}
    ELSE
      LET flags     == ContextFlags(a, p)
          unmatched == {i \in 1..Len(flags) : ~HasElement(p, "flag", flags[i].name)}
          res(i)    == setDefault(a, flags[i], fv[flags[i].name])
          bad       == {i \in unmatched : ~res(i).ok}
          changing  == {i \in unmatched : res(i).ok /\ res(i).val # fv[flags[i].name]}
          apply(S)  == [n \in DOMAIN fv |->
                          IF \E i \in S : flags[i].name = n
                          THEN res(CHOOSE i \in S : flags[i].name = n).val
                          ELSE fv[n]]
      IN IF bad = {}
         THEN LET r == setArgDefaults(a, p, ContextArgs(a, p), av)
              IN {[flagValue |-> apply(unmatched), argValue |-> r.argValue, err |-> r.err]}
         ELSE {[flagValue |-> apply(S \cup {i}), argValue |-> av, err |-> ErrValue] :
                  i \in bad, S \in SUBSET changing}

\* validateRequired with the loop over the arguments left out.
validateRequiredFlagsOnly(a, p) ==
    IF \E i \in 1..Len(ContextFlags(a, p)) :
          /\ ~HasElement(p, "flag", ContextFlags(a, p)[i].name)
          /\ needsValue(a, ContextFlags(a, p)[i])
    THEN ErrRequiredFlag
    ELSE NoErr

\* Application.validateRequired
validateRequired(a, p) ==
    LET flags     == ContextFlags(a, p)
        arguments == ContextArgs(a, p)
    IN IF \E i \in 1..Len(flags) :
             ~HasElement(p, "flag", flags[i].name) /\ needsValue(a, flags[i])
       THEN ErrRequiredFlag
       ELSE IF \E i \in 1..Len(arguments) :
             ~HasElement(p, "arg", arguments[i].name) /\ needsValue(a, arguments[i])
       THEN ErrRequiredArgument
       ELSE NoErr

-----------------------------------------------------------------------------
(* Values, validators and callbacks *)

FlagNamed(a, name) == (SelectSeq(a.flags, LAMBDA f : f.name = name))[1]
ArgNamed(a, name)  == (SelectSeq(a.args, LAMBDA x : x.name = name))[1]
CmdNamed(a, full)  == (SelectSeq(a.cmds, LAMBDA c : c.full = full))[1]

\* cannotRepeat with the test of IsCumulative inverted.
cannotRepeatInverted(kind, name, flagSet) == name \in flagSet /\ IsCumulative(kind)

\* setValues: a flag already set may be set again only when its Value is
\* cumulative.
cannotRepeat(kind, name, flagSet) == name \in flagSet /\ ~IsCumulative(kind)

\* The loop of setValues over the elements: st is
\* [selected, lastCmd, flagSet, flagValue, argValue, err, nilSelected].
RECURSIVE setValuesLoop(_, _, _)
setValuesLoop(a, elements, st) ==
    IF elements = <<>> THEN st
    ELSE
      LET e == Head(elements)
      IN IF e.kind = "flag"
         THEN LET clause == FlagNamed(a, e.name)
                  r      == ValueSet(clause.kind, st.flagValue[e.name], e.value)
              IN IF cannotRepeat(clause.kind, e.name, st.flagSet)
                 THEN [st EXCEPT !.err = ErrFlagCannotRepeat, !.selected = <<>>]
                 ELSE IF ~r.ok
                 THEN [st EXCEPT !.err = ErrValue]
                 ELSE setValuesLoop(a, Tail(elements),
                        [st EXCEPT !.flagValue[e.name] = r.val,
                                   !.flagSet = @ \cup {e.name}])
         ELSE IF e.kind = "arg"
         THEN LET clause == ArgNamed(a, e.name)
                  r      == ValueSet(clause.kind, st.argValue[e.name], e.value)
              IN IF ~r.ok
                 THEN [st EXCEPT !.err = ErrValue]
                 ELSE setValuesLoop(a, Tail(elements),
                        [st EXCEPT !.argValue[e.name] = r.val])
         ELSE setValuesLoop(a, Tail(elements),
                [st EXCEPT !.selected = Append(@, CmdNamed(a, e.name).name),
                           !.lastCmd = e.name])

\* setValues without the check of the last command.
setValuesEndAnyCommand(a, st) ==
    [selected |-> st.selected, err |-> st.err,
     flagValue |-> st.flagValue, argValue |-> st.argValue]

\* setValues after the loop: a last command that owns subcommands is an
\* error.
setValuesEnd(a, st) ==
    IF st.err # NoErr
    THEN [selected |-> st.selected, err |-> st.err,
          flagValue |-> st.flagValue, argValue |-> st.argValue]
    ELSE IF st.lastCmd # "" /\ CmdHave(a, st.lastCmd)
    THEN [selected |-> <<>>, err |-> ErrSubCommandRequired,
          flagValue |-> st.flagValue, argValue |-> st.argValue]
    ELSE [selected |-> st.selected, err |-> NoErr,
          flagValue |-> st.flagValue, argValue |-> st.argValue]

\* Application.setValues: [selected, err, flagValue, argValue]
setValues(a, p, fv, av) ==
    setValuesEnd(a, setValuesLoop(a, p.Elements,
                       [selected |-> <<>>, lastCmd |-> "", flagSet |-> {},
                        flagValue |-> fv, argValue |-> av, err |-> NoErr]))

\* A callback: who owns it, in which phase it runs, and what it does
\* ("user": a callback of the program; "usage" and "version": write and
\* call terminate(0)).
Callback(phase, owner, name, does) ==
    [phase |-> phase, owner |-> owner, name |-> name, does |-> does]

ClauseOf(a, e) ==
    IF e.kind = "flag" THEN FlagNamed(a, e.name)
    ELSE IF e.kind = "arg" THEN ArgNamed(a, e.name)
    ELSE CmdNamed(a, e.name)

\* actionMixin.applyPreActions / applyActions of the application
RECURSIVE AppCallbacks(_, _)
AppCallbacks(phase, names) ==
    IF names = <<>> THEN <<>>
    ELSE <<Callback(phase, "app", Head(names), "user")>> \o AppCallbacks(phase, Tail(names))

\* The pre-actions of the clauses of the elements, in element order.
RECURSIVE ElementPreActions(_, _)
ElementPreActions(a, elements) ==
    IF elements = <<>> THEN <<>>
    ELSE LET e == Head(elements)
             c == ClauseOf(a, e)
         IN (IF c.preAction = "none" THEN <<>>
             ELSE <<Callback("pre", e.kind, e.name, c.preAction)>>)
            \o ElementPreActions(a, Tail(elements))

\* The actions of the clauses of the elements, in element order.
RECURSIVE ElementActions(_, _)
ElementActions(a, elements) ==
    IF elements = <<>> THEN <<>>
    ELSE LET e == Head(elements)
             c == ClauseOf(a, e)
         IN (IF c.action THEN <<Callback("act", e.kind, e.name, "user")>> ELSE <<>>)
            \o ElementActions(a, Tail(elements))

\* The variable command of init, target of the argument of the help
\* command: the values of the elements of that argument that setValues has
\* set, as typed.
commandOfHelp ==
    LET typed == SelectSeq(context.Elements,
                           LAMBDA e : e.kind = "arg" /\ e.name = HelpCommandArg.name)
    IN [i \in 1..Len(argValue[HelpCommandArg.name]) |-> typed[i].value]

\* The statuses terminate is called with by a callback that is not of the
\* program.  The pre-action of the help command calls Usage(command), which
\* parses command with defaults ignored and, through FatalIfError, calls
\* terminate(1) when that fails, and then terminate(0); every other one
\* writes and calls terminate(0).
Statuses(a, cb) ==
    IF cb.owner = "cmd" /\ parseContext(a, TRUE, commandOfHelp).err # NoErr
    THEN <<1, 0>> ELSE <<0>>

\* terminate called with each status in turn, while it returns: x is the
\* statuses it was called with before.
Terminated(a, x, statuses) ==
    IF a.terminateReturns THEN x \o statuses ELSE Append(x, Head(statuses))

\* Dispatch callbacks in order: st is [log, exits, err, exited].  The first
\* error stops the dispatch; a terminate that does not return ends the
\* process.
RECURSIVE Dispatch(_, _, _)
Dispatch(a, callbacks, st) ==
    IF callbacks = <<>> \/ st.err # NoErr \/ st.exited THEN st
    ELSE
      LET cb == Head(callbacks)
          l  == Append(st.log, cb)
      IN IF cb.does = "user"
         THEN Dispatch(a, Tail(callbacks),
                [st EXCEPT !.log = l,
                           !.err = IF cb \in a.failing THEN ErrCallback(cb) ELSE NoErr])
         ELSE Dispatch(a, Tail(callbacks),
                [st EXCEPT !.log = l, !.exits = Terminated(a, @, Statuses(a, cb)),
                           !.exited = ~a.terminateReturns])

\* applyPreActions that never dispatches to the matched elements.
applyPreActionsOfAppOnly(a, p, dispatch, l, x) ==
    Dispatch(a, AppCallbacks("pre", a.preActions),
             [log |-> l, exits |-> x, err |-> NoErr, exited |-> FALSE])

\* applyPreActions that dispatches to the matched elements whatever
\* dispatch says.
applyPreActionsOfElementsAlways(a, p, dispatch, l, x) ==
    Dispatch(a, AppCallbacks("pre", a.preActions) \o ElementPreActions(a, p.Elements),
             [log |-> l, exits |-> x, err |-> NoErr, exited |-> FALSE])

\* Application.applyPreActions(context, dispatch)
applyPreActions(a, p, dispatch, l, x) ==
    Dispatch(a, AppCallbacks("pre", a.preActions)
                \o (IF dispatch THEN ElementPreActions(a, p.Elements) ELSE <<>>),
             [log |-> l, exits |-> x, err |-> NoErr, exited |-> FALSE])

\* applyActions with the actions of the elements dispatched first.
applyActionsElementsFirst(a, p, l, x) ==
    Dispatch(a, ElementActions(a, p.Elements) \o AppCallbacks("act", a.actions),
             [log |-> l, exits |-> x, err |-> NoErr, exited |-> FALSE])

\* Application.applyActions
applyActions(a, p, l, x) ==
    Dispatch(a, AppCallbacks("act", a.actions) \o ElementActions(a, p.Elements),
             [log |-> l, exits |-> x, err |-> NoErr, exited |-> FALSE])

\* Application.applyValidators: the validators of the matched commands in
\* element order, then the validator of the application.
RECURSIVE ElementValidators(_, _)
ElementValidators(a, elements) ==
    IF elements = <<>> THEN <<>>
    ELSE LET e == Head(elements)
         IN (IF e.kind = "cmd" /\ CmdNamed(a, e.name).validator
             THEN <<Callback("validate", "cmd", e.name, "user")>> ELSE <<>>)
            \o ElementValidators(a, Tail(elements))

applyValidators(a, p, l, x) ==
    Dispatch(a, ElementValidators(a, p.Elements)
                \o (IF a.validator THEN <<Callback("validate", "app", "", "user")>>
                    ELSE <<>>),
             [log |-> l, exits |-> x, err |-> NoErr, exited |-> FALSE])

\* maybeHelp that stops looking after the first help-flag element.
maybeHelpOnce(a, elements, x) ==
    IF \E i \in 1..Len(elements) :
          elements[i].kind = "flag" /\ elements[i].name = "help"
    THEN [exits |-> Append(x, 0), exited |-> ~a.terminateReturns]
    ELSE [exits |-> x, exited |-> FALSE]

\* Application.maybeHelp: usage is written and terminate(0) called once
\* for every help-flag element.
RECURSIVE maybeHelp(_, _, _)
maybeHelp(a, elements, x) ==
    IF elements = <<>> THEN [exits |-> x, exited |-> FALSE]
    ELSE IF Head(elements).kind = "flag" /\ Head(elements).name = "help"
    THEN IF a.terminateReturns
         THEN maybeHelp(a, Tail(elements), Append(x, 0))
         ELSE [exits |-> Append(x, 0), exited |-> TRUE]
    ELSE maybeHelp(a, Tail(elements), x)

RECURSIVE JoinWith(_, _)
JoinWith(strs, sep) ==
    IF strs = <<>> THEN ""
    ELSE IF Len(strs) = 1 THEN strs[1]
    ELSE strs[1] \o sep \o JoinWith(Tail(strs), sep)

-----------------------------------------------------------------------------
(* Plugin delegation *)

\* The pluginDelegator of the commands of one plugin: the program to run,
\* the names of the plugin flags bound to flags of the application, and
\* whether the delegator records the flags set by the user (flagsIsSet,
\* which one revision of the delegation action has and the other lacks).
pluginDelegator(command, proxyGlobals, flagsIsSet) ==
    [command |-> command, proxyGlobals |-> proxyGlobals, flagsIsSet |-> flagsIsSet]

\* *pd.flagsIsSet[k]: the cell FlagClause.setByUser points at, which
\* flagGroup.parse sets when it matches the flag.
IsSetByUser(p, k) == <<"flag", k>> \in p.setByUser

\* strings.Split(FullCommand(), " ") of the command with full path full.
RECURSIVE Split(_, _)
Split(a, full) ==
    IF CmdNamed(a, full).parent = "" THEN <<CmdNamed(a, full).name>>
    ELSE Append(Split(a, CmdNamed(a, full).parent), CmdNamed(a, full).name)

\* The tokens appended for the keys in order, tokens[k] for key k.
RECURSIVE Appended(_, _)
Appended(order, tokens) ==
    IF order = <<>> THEN <<>> ELSE tokens[Head(order)] \o Appended(Tail(order), tokens)

\* for k, v := range over a map with the keys of clauses: the keys come in
\* an order the runtime picks, so every order is possible.
MapRange(clauses, tokens) ==
    {Appended(order, tokens) :
       order \in {o \in [1..Len(clauses) -> SeqToSet(MapName(clauses))] :
                    \A i, j \in 1..Len(clauses) : i # j => o[i] # o[j]}}

\* The clauses of one kind that addArgsFromModel / addFlagsFromModel put
\* in one map of the delegator.
OfKind(clauses, kind) == SelectSeq(clauses, LAMBDA c : c.kind = kind)

\* One --k=v for every entry of a cumulative value.
Repeated(k, values) == [i \in 1..Len(values) |-> "--" \o k \o "=" \o values[i]]

\* The argument vectors the action of pluginAction can build for command
\* cmd: the path below the first segment, then the delegator's maps and
\* slices in the order of the loops, nothing for a flag that is not set.
pluginAction(a, cmd, p, fv, av) ==
    {Tail(Split(a, cmd.full)) \o bare \o flags \o cumuFlags \o boolFlags \o unNegBoolFlags
       \o Appended(cmd.pluginDelegator[1].proxyGlobals,
                   [f \in SeqToSet(cmd.pluginDelegator[1].proxyGlobals) |->
                      IF IsSetByUser(p, f) THEN <<"--" \o f \o "=" \o fv[f]>> ELSE <<>>])
       \o cumuArgs :
       bare \in MapRange(OfKind(ArgsOf(a, cmd.full), "string"),
                  [k \in DOMAIN av |-> IF av[k] # "" THEN <<av[k]>> ELSE <<>>]),
       flags \in MapRange(OfKind(FlagsOf(a, cmd.full), "string"),
                  [k \in DOMAIN fv |->
                     IF IsSetByUser(p, k) THEN <<"--" \o k \o "=" \o fv[k]>> ELSE <<>>]),
       cumuFlags \in MapRange(OfKind(FlagsOf(a, cmd.full), "strings"),
                  [k \in DOMAIN fv |->
                     IF IsSetByUser(p, k) THEN Repeated(k, fv[k]) ELSE <<>>]),
       boolFlags \in MapRange(OfKind(FlagsOf(a, cmd.full), "bool"),
                  [k \in DOMAIN fv |->
                     IF ~IsSetByUser(p, k) THEN <<>>
                     ELSE IF fv[k] = TRUE THEN <<"--" \o k>> ELSE <<"--no-" \o k>>]),
       unNegBoolFlags \in MapRange(OfKind(FlagsOf(a, cmd.full), "unnegbool"),
                  [k \in DOMAIN fv |->
                     IF IsSetByUser(p, k) /\ fv[k] = TRUE THEN <<"--" \o k>> ELSE <<>>]),
       cumuArgs \in MapRange(OfKind(ArgsOf(a, cmd.full), "strings"),
                  [k \in DOMAIN av |-> SelectSeq(av[k], LAMBDA i : i # "")])}

\* The clauses in the maps of the delegator of cmd when every command of
\* the plugin points at one delegator (cm.pluginDelegator =
\* c.pluginDelegator): those of all the commands of the plugin.
Shared(a, clauses, cmd) ==
    SelectSeq(clauses, LAMBDA c :
                 c.owner # "" /\ CmdNamed(a, c.owner).pluginDelegator = cmd.pluginDelegator)

\* The argument vectors the action that addCommandsFromModel registers in
\* src/app_plugin.go can build: every argument as k=v, and every flag
\* whether set or not.
addCommandsFromModelAction(a, cmd, p, fv, av) ==
    {Tail(Split(a, cmd.full)) \o bare \o flags \o cumuFlags \o boolFlags \o unNegBoolFlags
       \o Appended(cmd.pluginDelegator[1].proxyGlobals,
                   [f \in SeqToSet(cmd.pluginDelegator[1].proxyGlobals) |->
                      <<"--" \o f \o "=" \o fv[f]>>])
       \o cumuArgs :
       bare \in MapRange(OfKind(Shared(a, a.args, cmd), "string"),
                  [k \in DOMAIN av |-> <<k \o "=" \o av[k]>>]),
       flags \in MapRange(OfKind(Shared(a, a.flags, cmd), "string"),
                  [k \in DOMAIN fv |-> <<"--" \o k \o "=" \o fv[k]>>]),
       cumuFlags \in MapRange(OfKind(Shared(a, a.flags, cmd), "strings"),
                  [k \in DOMAIN fv |-> Repeated(k, fv[k])]),
       boolFlags \in MapRange(OfKind(Shared(a, a.flags, cmd), "bool"),
                  [k \in DOMAIN fv |->
                     IF fv[k] = TRUE THEN <<"--" \o k>> ELSE <<"--no-" \o k>>]),
       unNegBoolFlags \in MapRange(OfKind(Shared(a, a.flags, cmd), "unnegbool"),
                  [k \in DOMAIN fv |-> IF fv[k] = TRUE THEN <<"--" \o k>> ELSE <<>>]),
       cumuArgs \in MapRange(OfKind(Shared(a, a.args, cmd), "strings"),
                  [k \in DOMAIN av |-> av[k]])}

\* exec.Command(pd.command, args...) for every delegation action among the
\* callbacks ran: the sequences of argument vectors that can be started.
RECURSIVE Delegated(_, _, _, _, _)
Delegated(a, ran, p, fv, av) ==
    IF ran = <<>> THEN {<<>>}
    ELSE IF Head(ran).owner # "cmd" \/ Head(ran).phase # "act"
            \/ CmdNamed(a, Head(ran).name).pluginDelegator = <<>>
    THEN Delegated(a, Tail(ran), p, fv, av)
    ELSE {<<argv>> \o rest :
            argv \in (IF CmdNamed(a, Head(ran).name).pluginDelegator[1].flagsIsSet
                      THEN pluginAction(a, CmdNamed(a, Head(ran).name), p, fv, av)
                      ELSE addCommandsFromModelAction(a, CmdNamed(a, Head(ran).name), p, fv, av)),
            rest \in Delegated(a, Tail(ran), p, fv, av)}

\* addArgsFromModel: an argument of the command for every argument of the
\* model.
addArgsFromModel(a, owner, model) ==
    [a EXCEPT !.args = @ \o [i \in 1..Len(model) |-> [model[i] EXCEPT !.owner = owner]]]

\* addFlagsFromModel that gives the command a flag of its own for every
\* flag of the model, the names of global flags included.
addFlagsFromModelAllLocal(a, owner, model) ==
    [a EXCEPT !.flags = @ \o [i \in 1..Len(model) |-> [model[i] EXCEPT !.owner = owner]]]

\* addFlagsFromModel: a flag of the model named as a flag of the
\* application (globalFlags.long) is appended to proxyGlobals and gets no
\* flag on the command; every other one becomes a flag of the command.
\* proxyGlobals is the slice of the delegator of the command, which is the
\* delegator of every command of the plugin when they share one.
addFlagsFromModel(a, owner, model) ==
    [a EXCEPT
       !.flags = @ \o [i \in 1..Len(SelectSeq(model, LAMBDA f :
                                      f.name \notin SeqToSet(MapName(FlagsOf(a, ""))))) |->
                         [SelectSeq(model, LAMBDA f :
                             f.name \notin SeqToSet(MapName(FlagsOf(a, ""))))[i]
                            EXCEPT !.owner = owner]],
       !.cmds = [i \in 1..Len(a.cmds) |->
                   IF a.cmds[i].full = owner
                      \/ (a.cmds[i].pluginDelegator # <<>>
                          /\ ~a.cmds[i].pluginDelegator[1].flagsIsSet)
                   THEN [a.cmds[i] EXCEPT !.pluginDelegator[1].proxyGlobals =
                           @ \o MapName(SelectSeq(model, LAMBDA f :
                                   f.name \in SeqToSet(MapName(FlagsOf(a, "")))))]
                   ELSE a.cmds[i]]]

\* c.Command(cmd.Name, cmd.Help) in addCommandsFromModel: the command
\* takes the delegator of its parent, or a new one with the proxyGlobals of
\* the parent; the action is registered on every command, or on a command
\* without commands only, as the revision has it.
delegatedCommand(a, parent, cmd) ==
    [a EXCEPT !.cmds = Append(@,
        [Cmd(cmd.name, parent) EXCEPT
           !.pluginDelegator = CmdNamed(a, parent).pluginDelegator,
           !.action = ~CmdNamed(a, parent).pluginDelegator[1].flagsIsSet
                      \/ cmd.commands = <<>>])]

\* addCommandsFromModel
RECURSIVE addCommandsFromModel(_, _, _)
addCommandsFromModel(a, parent, model) ==
    IF model = <<>> THEN a
    ELSE addCommandsFromModel(
           addCommandsFromModel(
             addFlagsFromModel(
               addArgsFromModel(delegatedCommand(a, parent, Head(model)),
                                FullCommand(parent, Head(model).name), Head(model).args),
               FullCommand(parent, Head(model).name), Head(model).flags),
             FullCommand(parent, Head(model).name), Head(model).commands),
           parent, Tail(model))

\* registerPluginModel: the root command of the plugin with its delegator,
\* then the arguments, flags and commands of the model.
registerPluginModel(a, command, model, flagsIsSet) ==
    addCommandsFromModel(
      addFlagsFromModel(
        addArgsFromModel(
          [a EXCEPT !.cmds = Append(@,
              [Cmd(model.name, "") EXCEPT
                 !.pluginDelegator = <<pluginDelegator(command, <<>>, flagsIsSet)>>])],
          model.name, model.args),
        model.name, model.flags),
      model.name, model.commands)

-----------------------------------------------------------------------------
(* Applications under test and their command lines *)

Chars1(c)          == <<c>>
Long(name)         == DashDash \o name
LongEq(name, val)  == DashDash \o name \o <<"=">> \o val

\* An application with a required flag and a required argument bound to
\* environment variables, and a --version flag.
ReqApp(envT, envR, terminateReturns) ==
    LET a == Version(New("req"))
        t == [Flag("t", "", "int", "") EXCEPT !.required = TRUE, !.envar = "TEST_ENVAR"]
        r == [Arg("r", "string", "") EXCEPT !.required = TRUE, !.envar = "TEST_ARG_ENVAR"]
    IN [a EXCEPT !.flags = Append(@, t),
                 !.args = <<r>>,
                 !.terminateReturns = terminateReturns,
                 !.env = (IF envT THEN {[name |-> "TEST_ENVAR", value |-> <<"1", "2", "3">>]}
                          ELSE {})
                         \cup (IF envR
                               THEN {[name |-> "TEST_ARG_ENVAR", value |-> <<"e">>]}
                               ELSE {})]

ReqApps == {ReqApp(e, m, t) : e \in BOOLEAN, m \in BOOLEAN, t \in BOOLEAN}

ReqTokens == {LongEq(<<"t">>, <<"1">>), <<"x">>, Long(<<"v", "e", "r", "s", "i", "o", "n">>),
              Long(<<"h", "e", "l", "p">>),
              Long(<<"c", "o", "m", "p", "l", "e", "t", "i", "o", "n", "-", "b", "a", "s", "h">>)}

\* An application with a negatable boolean a, a non-negatable boolean b and
\* a flag c that takes a value, each with a short name.
BoolApp(defaultA) ==
    LET a == Terminate(New("bools"))
    IN [a EXCEPT !.flags = @ \o
          << [Flag("a", "a", "bool", "") EXCEPT !.defaults = defaultA],
             Flag("b", "b", "unnegbool", ""),
             Flag("c", "c", "string", "") >>]

BoolApps == {BoolApp(d) : d \in {<<>>, <<cTrue>>, <<cFalse>>}}

BoolTokens == {Long(<<"a">>), Long(<<"n", "o", "-", "a">>), Long(<<"b">>),
               Long(<<"n", "o", "-", "b">>), Long(<<"n", "o", "-", "c">>),
               <<"-", "a", "b", "c", "1", "0">>, <<"-", "b", "a">>,
               <<"-", "c", "7">>, <<"-", "b", "c", "=", "1">>, <<"-", "c">>,
               Long(<<"h", "e", "l", "p">>)}

\* The callbacks of the program registered on the command application.
CmdUserCallbacks ==
    {Callback("pre", "app", "P", "user"), Callback("act", "app", "A1", "user"),
     Callback("act", "app", "A2", "user"), Callback("validate", "app", "", "user"),
     Callback("pre", "flag", "v", "user"), Callback("act", "flag", "v", "user"),
     Callback("act", "flag", "x", "user"), Callback("act", "cmd", "c0", "user"),
     Callback("act", "cmd", "c0 c1", "user"), Callback("validate", "cmd", "c0 c1", "user"),
     Callback("pre", "cmd", "d", "user"), Callback("act", "cmd", "d", "user")}

\* An application with commands c0 (parent of c1) and d, with callbacks on
\* the application and on its clauses; failing are the callbacks that
\* return an error.
CmdApp(failing, terminateReturns) ==
    LET a == New("cmds")
    IN [a EXCEPT
          !.flags = @ \o
             << [Flag("v", "", "bool", "") EXCEPT !.preAction = "user", !.action = TRUE],
                [Flag("x", "", "string", "c0 c1") EXCEPT !.required = TRUE,
                                                         !.action = TRUE] >>,
          !.cmds = << [Cmd("c0", "") EXCEPT !.action = TRUE],
                      [Cmd("c1", "c0") EXCEPT !.action = TRUE, !.validator = TRUE],
                      [Cmd("d", "") EXCEPT !.action = TRUE, !.preAction = "user"] >>,
          !.preActions = <<"P">>,
          !.actions = <<"A1", "A2">>,
          !.validator = TRUE,
          !.terminateReturns = terminateReturns,
          !.failing = failing]

CmdApps == {CmdApp(f, t) : f \in {{}} \cup {{c} : c \in CmdUserCallbacks}, t \in BOOLEAN}

CmdTokens == {<<"c", "0">>, <<"c", "1">>, <<"d">>, Long(<<"v">>),
              LongEq(<<"x">>, <<"1">>), <<"h", "e", "l", "p">>,
              Long(<<"h", "e", "l", "p">>),
              Long(<<"c", "o", "m", "p", "l", "e", "t", "i", "o", "n", "-", "b", "a", "s", "h">>)}

\* An application with two arguments, a flag taking a value and a
\* cumulative flag, with flags interspersed or not.
MixApp(interspersed) ==
    LET a == Interspersed(Terminate(New("mix")), interspersed)
    IN [a EXCEPT
          !.flags = @ \o << [Flag("flag", "", "string", "") EXCEPT !.action = TRUE],
                            Flag("s", "", "strings", "") >>,
          !.args = << [Arg("a1", "string", "") EXCEPT !.action = TRUE],
                      Arg("a2", "string", "") >>,
          !.actions = <<"A1">>]

MixApps == {MixApp(i) : i \in BOOLEAN}

MixTokens == {<<"a", "1">>, LongEq(<<"f", "l", "a", "g">>, <<"f", "l", "a", "g">>),
              LongEq(<<"f", "l", "a", "g">>, <<"g">>), LongEq(<<"s">>, <<"1">>),
              LongEq(<<"s">>, <<"2">>), DashDash}

\* An application whose clauses declare defaults: flag t with a default and
\* an environment variable, cumulative flag m with two defaults, and on the
\* command cmd an int flag i and a cumulative argument r with defaults; the
\* default of i is one its converter rejects when invalid.
DefApp(envT, invalid) ==
    LET a == Terminate(New("defs"))
    IN [a EXCEPT
          !.flags = @ \o
             << [Flag("t", "", "string", "") EXCEPT !.defaults = << <<"d">> >>,
                                                    !.envar = "TEST_ENVAR"],
                [Flag("m", "", "strings", "") EXCEPT
                    !.defaults = << <<"d", "1">>, <<"d", "2">> >>],
                [Flag("i", "", "int", "cmd") EXCEPT
                    !.defaults = IF invalid THEN << <<"a">> >> ELSE << <<"5">> >>] >>,
          !.args = << [Arg("r", "strings", "cmd") EXCEPT
                          !.defaults = << <<"d", "1">>, <<"d", "2">> >>] >>,
          !.cmds = << Cmd("cmd", ""), Cmd("other", "") >>,
          !.env = IF envT THEN {[name |-> "TEST_ENVAR", value |-> <<"1", "2", "3">>]}
                  ELSE {}]

DefApps == {DefApp(e, i) : e \in BOOLEAN, i \in BOOLEAN}

DefTokens == {<<"c", "m", "d">>, <<"o", "t", "h", "e", "r">>, LongEq(<<"t">>, <<"1">>),
              LongEq(<<"i">>, <<"1">>), <<"y">>, Long(<<"h", "e", "l", "p">>)}

\* Applications that declare what init rejects: a flag that is not
\* cumulative with two defaults, two flags of one group with the same long
\* name or the same short character, and a flag of a command with the long
\* name or the short character of a flag of the application or of its
\* parent command, and an argument of the application next to a command.
BadApp(fault) ==
    LET a == Terminate(New("bad"))
        c == <<Cmd("c", "")>>
        d == <<Cmd("c", ""), Cmd("d", "c")>>
    IN CASE fault = "defaults" ->
              [a EXCEPT !.flags = Append(@, [Flag("a", "", "string", "") EXCEPT
                                    !.defaults = << <<"d", "1">>, <<"d", "2">> >>])]
         [] fault = "long" ->
              [a EXCEPT !.flags = @ \o <<Flag("a", "", "string", ""),
                                         Flag("a", "", "string", "")>>]
         [] fault = "short" ->
              [a EXCEPT !.flags = @ \o <<Flag("a", "a", "unnegbool", ""),
                                         Flag("b", "a", "unnegbool", "")>>]
         [] fault = "command long" ->
              [a EXCEPT !.cmds = c,
                        !.flags = @ \o <<Flag("a", "", "string", ""),
                                         Flag("a", "", "string", "c")>>]
         [] fault = "command short" ->
              [a EXCEPT !.cmds = c,
                        !.flags = @ \o <<Flag("a", "a", "unnegbool", ""),
                                         Flag("b", "a", "unnegbool", "c")>>]
         [] fault = "ancestor long" ->
              [a EXCEPT !.cmds = d,
                        !.flags = @ \o <<Flag("a", "", "string", "c"),
                                         Flag("a", "", "string", "c d")>>]
         [] fault = "ancestor short" ->
              [a EXCEPT !.cmds = d,
                        !.flags = @ \o <<Flag("a", "a", "unnegbool", ""),
                                         Flag("b", "a", "unnegbool", "c d")>>]
         [] fault = "top-level arg" ->
              [a EXCEPT !.cmds = c, !.args = <<Arg("x", "string", "")>>]

Faults == {"defaults", "long", "short", "command long", "command short",
           "ancestor long", "ancestor short", "top-level arg"}

BadApps == {BadApp(f) : f \in Faults}

BadTokens == {LongEq(<<"a">>, <<"1">>), <<"-", "a">>, <<"c">>, <<"d">>,
              Long(<<"h", "e", "l", "p">>)}

\* The model of a plugin, as its introspection gives it: the flags g and
\* p of the plugin application, and a command sub with the arguments x and
\* y, the cumulative argument r, and the flags f (with a default), m
\* (cumulative, with an environment variable), n and u.
PluginModel ==
    [name |-> "plug",
     flags |-> << Flag("g", "", "string", ""), Flag("p", "", "string", "") >>,
     args |-> <<>>,
     commands |->
       << [name |-> "sub",
           flags |-> << [Flag("f", "", "string", "") EXCEPT !.defaults = << <<"d">> >>],
                        [Flag("m", "", "strings", "") EXCEPT !.envar = "PLUG_M"],
                        Flag("n", "", "bool", ""),
                        Flag("u", "", "unnegbool", "") >>,
           args |-> << Arg("x", "string", ""), Arg("y", "string", ""),
                       Arg("r", "strings", "") >>,
           commands |-> <<>>] >>]

\* ExternalPluginCommand(command, model) on an application that has the
\* global flag g.
PluginApp(flagsIsSet) ==
    LET a == Terminate(New("host"))
    IN registerPluginModel(
         [a EXCEPT !.flags = Append(@, Flag("g", "", "string", "")),
                   !.env = {[name |-> "PLUG_M", value |-> <<"e">>]}],
         "plugin", PluginModel, flagsIsSet)

PluginApps == {PluginApp(s) : s \in BOOLEAN}

\* The command line of the plugin command, typed before the tokens.
PluginCommand == << <<"p", "l", "u", "g">>, <<"s", "u", "b">> >>

PluginTokens == {<<"1">>, <<"2">>, LongEq(<<"f">>, <<"1">>), LongEq(<<"m">>, <<"1">>),
                 Long(<<"n">>), Long(<<"n", "o", "-", "n">>), Long(<<"u">>),
                 LongEq(<<"g">>, <<"1">>), LongEq(<<"p">>, <<"1">>)}

Apps == ReqApps \cup BoolApps \cup CmdApps \cup MixApps \cup DefApps \cup BadApps
        \cup PluginApps

Tokens(a) ==
    CASE a.Name = "req"   -> ReqTokens
      [] a.Name = "bools" -> BoolTokens
      [] a.Name = "cmds"  -> CmdTokens
      [] a.Name = "mix"   -> MixTokens
      [] a.Name = "defs"  -> DefTokens
      [] a.Name = "bad"   -> BadTokens
      [] a.Name = "host"  -> PluginTokens

\* The command lines tried: MaxArgs tokens at most, after the plugin command
\* on the application that has one.
ArgVectors(a) ==
    {(IF a.Name = "host" THEN PluginCommand ELSE <<>>) \o v :
       v \in SeqsUpTo(Tokens(a), MaxArgs)}

-----------------------------------------------------------------------------
(* The state machine *)

NoResult == [command |-> "", err |-> "none yet"]
Return(command, err) == [command |-> command, err |-> err]

\* A pass of Parse and the error it returned.
Pass(name, err) == [pass |-> name, err |-> err]

ZeroValues(clauses) ==
    [n \in SeqToSet(MapName(clauses)) |->
        ZeroValue((SelectSeq(clauses, LAMBDA c : c.name = n))[1].kind)]

Init ==
    /\ app \in Apps
    /\ args = <<>>
    /\ pc = "idle"
    /\ context = <<>>
    /\ parseErr = NoErr
    /\ setValuesErr = NoErr
    /\ selected = <<>>
    /\ flagValue = ZeroValues(app.flags)
    /\ argValue = ZeroValues(Append(app.args, HelpCommandArg))
    /\ log = <<>>
    /\ exits = <<>>
    /\ passes = <<>>
    /\ result = NoResult
    /\ calls = 0
    /\ spawned = <<>>

\* a.completion, the target of --completion-bash
completion == flagValue["completion-bash"]

\* Parse, lines 225-233: ParseContext(args) and the nil-context return.
ParseContextDone(r) ==
    /\ app' = r.app
    /\ passes' = Append(passes, Pass("ParseContext", r.err))
    /\ IF r.ctx = <<>>
       THEN /\ result' = Return("", r.err)
            /\ pc' = "done"
            /\ UNCHANGED <<context, parseErr>>
       ELSE /\ context' = r.ctx[1]
            /\ parseErr' = r.err
            /\ pc' = "setDefaults"
            /\ UNCHANGED result

ParseBegin(v) ==
    /\ pc = "idle"
    /\ args' = v
    /\ calls' = calls + 1
    /\ ParseContextDone(parseContext(app, FALSE, v))
    /\ UNCHANGED <<setValuesErr, selected, flagValue, argValue, log, exits, spawned>>

\* A further Parse call on an application whose init failed: Parse, lines
\* 225-233, with init run again.
ParseAgain(v) ==
    /\ pc = "done"
    /\ context = <<>>
    /\ calls < MaxCalls
    /\ args' = v
    /\ calls' = calls + 1
    /\ ParseContextDone(parseContext(app, FALSE, v))
    /\ UNCHANGED <<setValuesErr, selected, flagValue, argValue, log, exits, spawned>>

\* Parse going on to setValues whatever setDefaults returned.
SetDefaultsUnchecked ==
    /\ pc = "setDefaults"
    /\ \E o \in setDefaults(app, context, flagValue, argValue) :
          /\ flagValue' = o.flagValue
          /\ argValue' = o.argValue
          /\ passes' = Append(passes, Pass("setDefaults", o.err))
          /\ pc' = "setValues"
    /\ UNCHANGED <<app, args, context, parseErr, setValuesErr, selected, log, exits,
                   result, calls, spawned>>

\* Parse, lines 235-237
SetDefaults ==
    /\ pc = "setDefaults"
    /\ \E o \in setDefaults(app, context, flagValue, argValue) :
          /\ flagValue' = o.flagValue
          /\ argValue' = o.argValue
          /\ passes' = Append(passes, Pass("setDefaults", o.err))
          /\ IF o.err # NoErr
             THEN result' = Return("", o.err) /\ pc' = "done"
             ELSE pc' = "setValues" /\ UNCHANGED result
    /\ UNCHANGED <<app, args, context, parseErr, setValuesErr, selected, log, exits, calls, spawned>>

\* Parse, line 239
SetValuesDone(r) ==
    /\ selected' = r.selected
    /\ setValuesErr' = r.err
    /\ flagValue' = r.flagValue
    /\ argValue' = r.argValue
    /\ passes' = Append(passes, Pass("setValues", r.err))

SetValues ==
    /\ pc = "setValues"
    /\ SetValuesDone(setValues(app, context, flagValue, argValue))
    /\ pc' = "preActions"
    /\ UNCHANGED <<app, args, context, parseErr, log, exits, result, calls, spawned>>

\* Parse that returns the error of the parser before it dispatches the
\* pre-actions.
ApplyPreActionsAfterParseErr ==
    /\ pc = "preActions"
    /\ LET d == IF parseErr # NoErr /\ ~completion
                THEN [log |-> log, exits |-> exits, err |-> parseErr, exited |-> FALSE]
                ELSE applyPreActions(app, context, ~completion, log, exits)
       IN /\ log' = d.log
          /\ exits' = d.exits
          /\ passes' = Append(passes, Pass("applyPreActions", d.err))
          /\ IF d.exited THEN pc' = "exited" /\ UNCHANGED result
             ELSE IF d.err # NoErr THEN result' = Return("", d.err) /\ pc' = "done"
             ELSE /\ pc' = IF completion THEN "completion" ELSE "help"
                  /\ UNCHANGED result
    /\ UNCHANGED <<app, args, context, parseErr, setValuesErr, selected,
                   flagValue, argValue, calls, spawned>>

\* Parse, lines 241-243
ApplyPreActions ==
    /\ pc = "preActions"
    /\ LET d == applyPreActions(app, context, ~completion, log, exits)
       IN /\ log' = d.log
          /\ exits' = d.exits
          /\ passes' = Append(passes, Pass("applyPreActions", d.err))
          /\ IF d.exited THEN pc' = "exited" /\ UNCHANGED result
             ELSE IF d.err # NoErr THEN result' = Return("", d.err) /\ pc' = "done"
             ELSE /\ pc' = IF completion THEN "completion" ELSE "help"
                  /\ UNCHANGED result
    /\ UNCHANGED <<app, args, context, parseErr, setValuesErr, selected,
                   flagValue, argValue, calls, spawned>>

\* Parse, lines 245-247 and 268: completion mode
Completion ==
    /\ pc = "completion"
    /\ exits' = Append(exits, 0)
    /\ passes' = Append(passes, Pass("generateBashCompletion", NoErr))
    /\ IF app.terminateReturns
       THEN result' = Return("", NoErr) /\ pc' = "done"
       ELSE pc' = "exited" /\ UNCHANGED result
    /\ UNCHANGED <<app, args, context, parseErr, setValuesErr, selected,
                   flagValue, argValue, log, calls, spawned>>

\* Parse that writes the usage with the parse error, as FatalUsage would:
\* writeUsage(context, parseErr) calls terminate(1).
MaybeHelpFatalUsage ==
    /\ pc = "help"
    /\ IF parseErr # NoErr
       THEN /\ exits' = Append(exits, 1)
            /\ IF app.terminateReturns
               THEN result' = Return("", parseErr) /\ pc' = "done"
               ELSE pc' = "exited" /\ UNCHANGED result
            /\ UNCHANGED passes
       ELSE LET h == maybeHelp(app, context.Elements, exits)
            IN /\ exits' = h.exits
               /\ passes' = Append(passes, Pass("maybeHelp", NoErr))
               /\ IF h.exited THEN pc' = "exited" /\ UNCHANGED result
                  ELSE IF ~EOL(app, context)
                  THEN result' = Return("", ErrUnexpectedArgument) /\ pc' = "done"
                  ELSE IF setValuesErr # NoErr
                  THEN result' = Return("", setValuesErr) /\ pc' = "done"
                  ELSE pc' = "validateRequired" /\ UNCHANGED result
    /\ UNCHANGED <<app, args, context, parseErr, setValuesErr, selected,
                   flagValue, argValue, log, calls, spawned>>

\* Parse whose maybeHelp parses again the way Parse does, defaults
\* included: the flags of the context are given their defaults for every
\* help element.
MaybeHelpAppliesDefaults ==
    /\ pc = "help"
    /\ IF parseErr # NoErr
       THEN /\ result' = Return("", parseErr)
            /\ pc' = "done"
            /\ UNCHANGED <<exits, passes, flagValue>>
       ELSE LET h == maybeHelp(app, context.Elements, exits)
                p == [context EXCEPT !.Elements =
                         SelectSeq(@, LAMBDA e : ~(e.kind = "flag" /\ e.name = "help"))]
            IN /\ exits' = h.exits
               /\ flagValue' =
                     IF HasElement(context, "flag", "help")
                     THEN (CHOOSE o \in setDefaultsOfFlagsOnly(app, p, flagValue, argValue) :
                              TRUE).flagValue
                     ELSE flagValue
               /\ passes' = Append(passes, Pass("maybeHelp", NoErr))
               /\ IF h.exited THEN pc' = "exited" /\ UNCHANGED result
                  ELSE IF ~EOL(app, context)
                  THEN result' = Return("", ErrUnexpectedArgument) /\ pc' = "done"
                  ELSE IF setValuesErr # NoErr
                  THEN result' = Return("", setValuesErr) /\ pc' = "done"
                  ELSE pc' = "validateRequired" /\ UNCHANGED result
    /\ UNCHANGED <<app, args, context, parseErr, setValuesErr, selected,
                   argValue, log, calls, spawned>>

\* Parse, lines 249-260: the parse error, maybeHelp, the left-over token
\* and the error of setValues
MaybeHelp ==
    /\ pc = "help"
    /\ IF parseErr # NoErr
       THEN /\ result' = Return("", parseErr)
            /\ pc' = "done"
            /\ UNCHANGED <<exits, passes>>
       ELSE LET h == maybeHelp(app, context.Elements, exits)
            IN /\ exits' = h.exits
               /\ passes' = Append(passes, Pass("maybeHelp", NoErr))
               /\ IF h.exited THEN pc' = "exited" /\ UNCHANGED result
                  ELSE IF ~EOL(app, context)
                  THEN result' = Return("", ErrUnexpectedArgument) /\ pc' = "done"
                  ELSE IF setValuesErr # NoErr
                  THEN result' = Return("", setValuesErr) /\ pc' = "done"
                  ELSE pc' = "validateRequired" /\ UNCHANGED result
    /\ UNCHANGED <<app, args, context, parseErr, setValuesErr, selected,
                   flagValue, argValue, log, calls, spawned>>

\* execute going on to the validators whatever validateRequired returned.
ValidateRequiredUnchecked ==
    /\ pc = "validateRequired"
    /\ passes' = Append(passes, Pass("validateRequired", validateRequired(app, context)))
    /\ pc' = "validators"
    /\ UNCHANGED <<app, args, context, parseErr, setValuesErr, selected,
                   flagValue, argValue, log, exits, result, calls, spawned>>

\* execute with the actions dispatched before the required clauses are
\* checked.
ValidateRequiredAfterActions ==
    /\ pc = "validateRequired"
    /\ LET err == validateRequired(app, context)
           d   == applyActions(app, context, log, exits)
       IN /\ passes' = Append(passes, Pass("validateRequired", err))
          /\ log' = d.log
          /\ exits' = d.exits
          /\ IF err # NoErr
             THEN result' = Return("", err) /\ pc' = "done"
             ELSE pc' = "validators" /\ UNCHANGED result
    /\ UNCHANGED <<app, args, context, parseErr, setValuesErr, selected,
                   flagValue, argValue, calls, spawned>>

\* execute, lines 591-593
ValidateRequired ==
    /\ pc = "validateRequired"
    /\ LET err == validateRequired(app, context)
       IN /\ passes' = Append(passes, Pass("validateRequired", err))
          /\ IF err # NoErr
             THEN result' = Return("", err) /\ pc' = "done"
             ELSE pc' = "validators" /\ UNCHANGED result
    /\ UNCHANGED <<app, args, context, parseErr, setValuesErr, selected,
                   flagValue, argValue, log, exits, calls, spawned>>

\* execute, lines 595-597
ApplyValidators ==
    /\ pc = "validators"
    /\ LET d == applyValidators(app, context, log, exits)
       IN /\ log' = d.log
          /\ exits' = d.exits
          /\ passes' = Append(passes, Pass("applyValidators", d.err))
          /\ IF d.err # NoErr THEN result' = Return("", d.err) /\ pc' = "done"
             ELSE pc' = "actions" /\ UNCHANGED result
    /\ UNCHANGED <<app, args, context, parseErr, setValuesErr, selected,
                   flagValue, argValue, calls, spawned>>

\* execute, lines 599-601
ApplyActions ==
    /\ pc = "actions"
    /\ LET d == applyActions(app, context, log, exits)
       IN /\ log' = d.log
          /\ exits' = d.exits
          /\ passes' = Append(passes, Pass("applyActions", d.err))
          /\ \E started \in Delegated(app, SubSeq(d.log, Len(log) + 1, Len(d.log)),
                                      context, flagValue, argValue) :
                spawned' = spawned \o started
          /\ IF d.err # NoErr THEN result' = Return("", d.err) /\ pc' = "done"
             ELSE pc' = "return" /\ UNCHANGED result
    /\ UNCHANGED <<app, args, context, parseErr, setValuesErr, selected,
                   flagValue, argValue, calls>>

\* execute, lines 603-607, and Parse, lines 262-268
ExecuteReturn ==
    /\ pc = "return"
    /\ LET command == JoinWith(selected, " ")
       IN IF command = "" /\ CmdHave(app, "")
          THEN /\ exits' = Append(exits, 0)
               /\ IF app.terminateReturns
                  THEN result' = Return("", ErrCommandNotSpecified) /\ pc' = "done"
                  ELSE pc' = "exited" /\ UNCHANGED result
          ELSE /\ result' = Return(command, NoErr)
               /\ pc' = "done"
               /\ UNCHANGED exits
    /\ UNCHANGED <<app, args, context, parseErr, setValuesErr, selected,
                   flagValue, argValue, log, passes, calls, spawned>>

\* The errors after which MustParseWithUsage prints the usage without
\* calling Fatalf first (the cases of its switch).
UsageErrors ==
    {ErrSubCommandRequired, ErrExpectedKnownCommand, ErrRequiredArgument,
     ErrRequiredFlag, ErrUnknownLongFlag, ErrUnknownShortFlag,
     ErrExpectedFlagArgument, ErrFlagCannotRepeat, ErrUnexpectedArgument}

\* MustParseWithUsage from the return of its Parse call on: st is [app, pc,
\* exits].  Fatalf calls terminate(1) for an error outside the switch; then
\* the arguments are parsed again with defaults ignored, the usage is
\* written for that context (a nil context cannot be rendered) and
\* terminate(1) is called.
mustParseFatal(a, err, x) ==
    IF err \in UsageErrors THEN [exits |-> x, exited |-> FALSE]
    ELSE [exits |-> Append(x, 1), exited |-> ~a.terminateReturns]

\* The end of MustParseWithUsage written with writeUsage(pc, nil), which
\* calls terminate(0).
mustParseWriteUsage(a, f, r) ==
    IF f.exited THEN [app |-> a, pc |-> "exited in usage", exits |-> f.exits]
    ELSE IF r.ctx = <<>> THEN [app |-> r.app, pc |-> "panicked", exits |-> f.exits]
    ELSE [app |-> r.app,
          pc |-> IF a.terminateReturns THEN "returned" ELSE "exited in usage",
          exits |-> Append(f.exits, 0)]

mustParseUsage(a, f, r) ==
    IF f.exited THEN [app |-> a, pc |-> "exited in usage", exits |-> f.exits]
    ELSE IF r.ctx = <<>> THEN [app |-> r.app, pc |-> "panicked", exits |-> f.exits]
    ELSE [app |-> r.app,
          pc |-> IF a.terminateReturns THEN "returned" ELSE "exited in usage",
          exits |-> Append(f.exits, 1)]

\* MustParseWithUsage, lines 827-854, once its Parse call has returned.
MustParseWithUsage ==
    /\ pc = "done"
    /\ IF result.err = NoErr
       THEN pc' = "returned" /\ UNCHANGED <<app, exits>>
       ELSE LET st == mustParseUsage(app, mustParseFatal(app, result.err, exits),
                                    parseContext(app, TRUE, args))
            IN app' = st.app /\ pc' = st.pc /\ exits' = st.exits
    /\ UNCHANGED <<args, context, parseErr, setValuesErr, selected, flagValue,
                   argValue, log, passes, result, calls, spawned>>

Next ==
    \/ \E v \in ArgVectors(app) : ParseBegin(v)
    \/ \E v \in ArgVectors(app) : ParseAgain(v)
    \/ SetDefaults
    \/ SetValues
    \/ ApplyPreActions
    \/ Completion
    \/ MaybeHelp
    \/ ValidateRequired
    \/ ApplyValidators
    \/ ApplyActions
    \/ ExecuteReturn
    \/ MustParseWithUsage

Spec == Init /\ [][Next]_vars

-----------------------------------------------------------------------------
(* Properties of Parse *)

\* Pass name has run in this Parse; the error it returned.
Ran(name) == \E i \in 1..Len(passes) : passes[i].pass = name
PassErr(name) == passes[CHOOSE i \in 1..Len(passes) : passes[i].pass = name].err

\* Parse has returned; MustParseWithUsage may have gone on from there.
Returned == pc \in {"done", "returned", "panicked", "exited in usage"}

\* The clause was matched by an element of the context of this Parse.
Matched(kind, name) == Ran("setDefaults") /\ HasElement(context, kind, name)

\* The index set of a sequence, and the elements of one kind.
Indices(seq) == 1..Len(seq)
ElementsOf(kind) == SelectSeq(context.Elements, LAMBDA e : e.kind = kind)

\* A required clause with no matched element, no default and no set
\* environment variable.
Unsatisfied(kind, c) ==
    /\ c.required
    /\ ~HasElement(context, kind, c.name)
    /\ c.defaults = <<>>
    /\ (c.envar = "" \/ Getenv(app, c.envar) = <<>>)

UnsatisfiedFlag ==
    \E i \in Indices(ContextFlags(app, context)) :
        Unsatisfied("flag", ContextFlags(app, context)[i])

UnsatisfiedArg ==
    \E i \in Indices(ContextArgs(app, context)) :
        Unsatisfied("arg", ContextArgs(app, context)[i])

\* A required clause that is not matched and whose environment variable is
\* set.
FromEnvar(kind, c) ==
    /\ c.required
    /\ ~HasElement(context, kind, c.name)
    /\ c.envar # ""
    /\ Getenv(app, c.envar) # <<>>

\* Every required unmatched clause whose variable is set holds the value of
\* the variable, as its converter reads it.
TakesEnvarValues ==
    /\ \A i \in Indices(ContextFlags(app, context)) :
          LET f == ContextFlags(app, context)[i]
          IN FromEnvar("flag", f) =>
                flagValue[f.name] =
                    ValueSet(f.kind, ZeroValue(f.kind), Getenv(app, f.envar)).val
    /\ \A i \in Indices(ContextArgs(app, context)) :
          LET c == ContextArgs(app, context)[i]
          IN FromEnvar("arg", c) =>
                argValue[c.name] =
                    ValueSet(c.kind, ZeroValue(c.kind), Getenv(app, c.envar)).val

\* Required validation fails with RequiredFlag exactly when a required flag
\* is unsatisfied, with RequiredArgument exactly when no flag but a required
\* argument is, and its error is what Parse returns.
RequiredExactly ==
    Ran("validateRequired") =>
        /\ (PassErr("validateRequired") = ErrRequiredFlag <=> UnsatisfiedFlag)
        /\ (PassErr("validateRequired") = ErrRequiredArgument
               <=> (~UnsatisfiedFlag /\ UnsatisfiedArg))
        /\ PassErr("validateRequired") \in {NoErr, ErrRequiredFlag, ErrRequiredArgument}
        /\ (PassErr("validateRequired") # NoErr =>
               Returned /\ result = Return("", PassErr("validateRequired")))

\* C1 (as amended): in a Parse that reaches required validation, the
\* validation fails with RequiredFlag exactly when some required flag of the
\* active command chain has no matched element, no default and no set
\* environment variable, and with RequiredArgument exactly when no flag but
\* some required argument is in that situation; Parse returns that error.  A
\* required clause whose environment variable is set passes without its
\* token, and holds the value of the variable once setDefaults has returned
\* without error, provided the help flag is not among the matched elements.
C1_RequiredOrEnvar ==
    /\ RequiredExactly
    /\ (Ran("setDefaults") /\ PassErr("setDefaults") = NoErr
           /\ ~HasElement(context, "flag", "help"))
        => TakesEnvarValues

\* C1: a Parse that succeeds for the envar case leaves, for example, the
\* required flag t unmatched and bound to 123, the value of TEST_ENVAR.
C1_Witness ==
    /\ Returned /\ result.err = NoErr
    /\ app.Name = "req"
    /\ ~HasElement(context, "flag", "t")
    /\ ~HasElement(context, "arg", "r")
    /\ flagValue["t"] = 123
    /\ argValue["r"] = "e"

\* C1 as stated: whenever Parse succeeds, every required unmatched clause
\* whose variable is set holds the value of the variable.
C1_AsStated ==
    /\ RequiredExactly
    /\ (Returned /\ result.err = NoErr) => TakesEnvarValues

\* The last matched command owns subcommands.
LastCmdHasSubcommands ==
    /\ ElementsOf("cmd") # <<>>
    /\ CmdHave(app, Last(ElementsOf("cmd")).name)

\* Some flag whose Value is not cumulative is matched by two elements.
RepeatedFlag ==
    \E i, j \in Indices(context.Elements) :
        /\ i < j
        /\ context.Elements[i].kind = "flag"
        /\ context.Elements[j].kind = "flag"
        /\ context.Elements[i].name = context.Elements[j].name
        /\ ~IsCumulative(FlagNamed(app, context.Elements[i].name).kind)

\* Parse reached the return of the error of setValues: the parser returned
\* no error and the pre-actions neither failed nor ended the process.
ReturnsSetValuesErr ==
    (Returned /\ Ran("maybeHelp") /\ PassErr("setValues") # NoErr)
        => result = Return("", PassErr("setValues"))

RECURSIVE ValuesOf(_, _)
ValuesOf(elements, name) ==
    IF elements = <<>> THEN <<>>
    ELSE (IF Head(elements).kind = "flag" /\ Head(elements).name = name
          THEN <<Join(Head(elements).value)>> ELSE <<>>)
         \o ValuesOf(Tail(elements), name)

\* A raw argument of the form --name=value.
IsLongWithValue(arg) ==
    HasPrefix(arg, DashDash) /\ IndexOf(arg, "=") > 3 /\ arg[3] # "-"

\* Every raw argument is of the form --name=value and was parsed without
\* error: the elements are then the flags of the arguments, in the order
\* of the command line.
ElementsFollowCommandLine ==
    (parseErr = NoErr /\ \A i \in Indices(args) : IsLongWithValue(args[i])) =>
        /\ Len(context.Elements) = Len(args)
        /\ \A i \in Indices(args) :
              /\ context.Elements[i].kind = "flag"
              /\ args[i] = LongEq(SubSeq(args[i], 3, IndexOf(args[i], "=") - 1),
                                  context.Elements[i].value)
              /\ Join(SubSeq(args[i], 3, IndexOf(args[i], "=") - 1))
                    = context.Elements[i].name

Dispatched(phase) == SelectSeq(log, LAMBDA cb : cb.phase = phase)

IsPrefix(s1, s2) == Len(s1) <= Len(s2) /\ SubSeq(s2, 1, Len(s1)) = s1

\* The callback returned an error.
Failed(cb) == cb \in app.failing

\* The callback ended the dispatch: it returned an error, or it called a
\* terminate that does not return.
Stopped(cb) == Failed(cb) \/ (cb.does # "user" /\ ~app.terminateReturns)

\* C4: an Action callback has been dispatched, or applyActions has run,
\* only in a Parse in which ParseContext, setDefaults, setValues, the
\* pre-actions, required validation and the validators have all run and
\* returned no error, no token is left over, and no pre-action or validator
\* dispatched before returned an error.
C4_ActionsOnlyAfterSuccess ==
    (Dispatched("act") # <<>> \/ Ran("applyActions")) =>
        /\ \A name \in {"ParseContext", "setDefaults", "setValues", "applyPreActions",
                          "validateRequired", "applyValidators"} :
              Ran(name) /\ PassErr(name) = NoErr
        /\ parseErr = NoErr
        /\ setValuesErr = NoErr
        /\ EOL(app, context)
        /\ validateRequired(app, context) = NoErr
        /\ \A i \in Indices(log) : log[i].phase \in {"pre", "validate"} => ~Failed(log[i])

\* C4: Parse(d) has succeeded and dispatched the Action of command d.
C4_Witness ==
    /\ Returned
    /\ result = Return("d", NoErr)
    /\ \E i \in Indices(log) : log[i] = Callback("act", "cmd", "d", "user")

\* The pre-actions a Parse not in completion mode is to dispatch: those of
\* the application, then those of the matched elements in element order.
PreActionsDue ==
    AppCallbacks("pre", app.preActions) \o ElementPreActions(app, context.Elements)

\* C5: in a Parse that is not in completion mode, the pre-actions
\* dispatched are those of the application and then those of the matched
\* elements in element order, up to the first one that returns an error or
\* ends the process; they are dispatched after setValues and before any
\* validator or action, and they have all been dispatched when required
\* validation runs, whether it then fails or not.
C5_PreActionsBeforeRequired ==
    /\ Dispatched("pre") # <<>> => Ran("setValues")
    /\ \A i, j \in Indices(log) : (i < j /\ log[j].phase = "pre") => log[i].phase = "pre"
    /\ (Ran("applyPreActions") /\ ~completion) =>
          /\ IsPrefix(Dispatched("pre"), PreActionsDue)
          /\ \A i \in 1..(Len(Dispatched("pre")) - 1) : ~Stopped(Dispatched("pre")[i])
          /\ Dispatched("pre") # PreActionsDue =>
                Dispatched("pre") # <<>> /\ Stopped(Last(Dispatched("pre")))
          /\ Ran("validateRequired") => Dispatched("pre") = PreActionsDue

\* C5: Parse(--version) without the required flag has dispatched the
\* pre-action of --version, which called terminate(0), and then returned
\* RequiredFlag.
C5_Witness ==
    /\ Returned
    /\ result = Return("", ErrRequiredFlag)
    /\ HasElement(context, "flag", "version")
    /\ Dispatched("pre") = <<Callback("pre", "flag", "version", "version")>>
    /\ exits = <<0>>

\* The actions applyActions is to dispatch: those of the application, then
\* those of the matched elements in element order.
ActionsDue ==
    AppCallbacks("act", app.actions) \o ElementActions(app, context.Elements)

\* The first action due that returns an error, 0 when none does.
FirstFailing ==
    IF \E i \in Indices(ActionsDue) : Failed(ActionsDue[i])
    THEN CHOOSE i \in Indices(ActionsDue) :
            Failed(ActionsDue[i]) /\ \A j \in 1..(i - 1) : ~Failed(ActionsDue[j])
    ELSE 0

\* C6: when applyActions has run, the actions dispatched are those of the
\* application followed by those of the matched elements in element order;
\* no action of the application comes after one of a clause; the dispatch
\* ends with the first action that returns an error, and that error is what
\* Parse returns; when none fails all are dispatched.
C6_ActionOrder ==
    /\ IsPrefix(Dispatched("act"), IF Ran("setDefaults") THEN ActionsDue ELSE <<>>)
    /\ \A i, j \in Indices(Dispatched("act")) :
          (i < j /\ Dispatched("act")[j].owner = "app") => Dispatched("act")[i].owner = "app"
    /\ Ran("applyActions") =>
          IF FirstFailing = 0
          THEN Dispatched("act") = ActionsDue /\ PassErr("applyActions") = NoErr
          ELSE /\ Dispatched("act") = SubSeq(ActionsDue, 1, FirstFailing)
               /\ PassErr("applyActions") = ErrCallback(ActionsDue[FirstFailing])
               /\ Returned
               /\ result = Return("", ErrCallback(ActionsDue[FirstFailing]))

\* C6: in Parse(--v d) the Action of flag v, dispatched after the two of
\* the application, has returned an error: the Action of d has not run and
\* Parse has returned that error.
C6_Witness ==
    /\ Returned
    /\ Dispatched("act") = << Callback("act", "app", "A1", "user"),
                              Callback("act", "app", "A2", "user"),
                              Callback("act", "flag", "v", "user") >>
    /\ ElementsOf("cmd") # <<>>
    /\ result = Return("", ErrCallback(Callback("act", "flag", "v", "user")))

\* What Parse(v) binds on application a: the elements and the error of the
\* parser, and the flag values once setDefaults and setValues have run.
BoundValues(a, p, o) == setValues(a, p, o.flagValue, o.argValue).flagValue

BoundOf(a, r) ==
    [elements |-> r.ctx[1].Elements,
     err      |-> r.err,
     values   |-> BoundValues(a, r.ctx[1],
                     CHOOSE o \in setDefaults(a, r.ctx[1], ZeroValues(a.flags),
                                              ZeroValues(Append(a.args, HelpCommandArg))) :
                        o.err = NoErr)]

Bound(a, v) == BoundOf(a, parseContext(a, FALSE, v))

\* What this Parse has bound.
BoundHere == [elements |-> context.Elements, err |-> parseErr, values |-> flagValue]

IsBoolShort(a, c) ==
    \E i \in Indices(a.flags) : a.flags[i].short = c /\ IsBoolFlag(a.flags[i].kind)

IsValueShort(a, c) ==
    \E i \in Indices(a.flags) : a.flags[i].short = c /\ ~IsBoolFlag(a.flags[i].kind)

\* The separate tokens of a short-flag run: one token per boolean flag,
\* and the flag that takes a value followed by sep and the value.
RECURSIVE SeparateTokens(_, _, _)
SeparateTokens(a, arg, sep) ==
    IF Len(arg) < 3 \/ arg[1] # "-" \/ arg[2] = "-" THEN <<arg>>
    ELSE IF IsBoolShort(a, arg[2])
    THEN << <<"-", arg[2]>> >> \o SeparateTokens(a, <<"-">> \o SubSeq(arg, 3, Len(arg)), sep)
    ELSE IF IsValueShort(a, arg[2])
    THEN << <<"-", arg[2]>> \o sep \o SubSeq(arg, 3, Len(arg)) >>
    ELSE <<arg>>

\* A short-flag run that starts with a boolean flag.
IsBoolRun(a, arg) ==
    Len(arg) >= 3 /\ arg[1] = "-" /\ arg[2] # "-" /\ IsBoolShort(a, arg[2])

\* The argument vector with every such run replaced by its separate tokens.
RECURSIVE Separated(_, _, _)
Separated(a, v, sep) ==
    IF v = <<>> THEN <<>>
    ELSE (IF IsBoolRun(a, Head(v)) THEN SeparateTokens(a, Head(v), sep) ELSE <<Head(v)>>)
         \o Separated(a, Tail(v), sep)

\* setDefaults and setValues have run, setDefaults without error.
ValuesBound == Ran("setValues") /\ PassErr("setDefaults") = NoErr

Occurrences(name) ==
    Len(SelectSeq(context.Elements, LAMBDA e : e.kind = "flag" /\ e.name = name))

\* The value the declared default of a boolean flag stands for, false when
\* none is declared.
DeclaredDefault(f) ==
    IF f.defaults = <<>> THEN FALSE ELSE ValueSet(f.kind, FALSE, f.defaults[1]).val

\* The parser consumed the whole argument vector as flags, and setDefaults
\* and setValues returned no error.
FlagsOnlyParse ==
    /\ ValuesBound
    /\ parseErr = NoErr
    /\ PassErr("setValues") = NoErr
    /\ ElementsOf("arg") = <<>>
    /\ \A i \in Indices(args) : args[i] # DashDash

InArgs(token) == \E i \in Indices(args) : args[i] = token

\* The negated and the plain form of negatable boolean f bind false and
\* true.
NegationBinds(f) ==
    /\ (InArgs(Long(NoPrefix \o <<f.name>>)) /\ Occurrences(f.name) = 1)
          => flagValue[f.name] = FALSE
    /\ (InArgs(Long(<<f.name>>)) /\ Occurrences(f.name) = 1)
          => flagValue[f.name] = TRUE

NegatableFlags ==
    {i \in Indices(app.flags) : IsNegatable(app.flags[i].kind) /\ Len(app.flags[i].name) = 1}

NotNegatableFlags ==
    {i \in Indices(app.flags) :
        /\ ~IsNegatable(app.flags[i].kind)
        /\ Len(app.flags[i].name) = 1
        /\ \A j \in Indices(app.flags) : app.flags[j].name # "no-" \o app.flags[i].name}

\* The parser gets to token k as a flag token: the tokens before it parse
\* without error, as flags.
ParserReaches(k) ==
    /\ \A j \in 1..(k - 1) : args[j] # DashDash
    /\ Bound(app, SubSeq(args, 1, k - 1)).err = NoErr
    /\ \A j \in Indices(Bound(app, SubSeq(args, 1, k - 1)).elements) :
          Bound(app, SubSeq(args, 1, k - 1)).elements[j].kind = "flag"

\* C9: when the parser gets to the token --no-<name> of a flag that is no
\* negatable boolean (and no flag is literally named no-<name>), it fails
\* with the unknown-long-flag error and matches nothing more: the elements
\* and, once setValues has run, the bound value of the flag are those of
\* the tokens before it; Parse returns that error when the pre-actions
\* neither fail nor end the process and it is not in completion mode.
C9_NoNegationUnknown ==
    Ran("setDefaults") =>
        \A i \in NotNegatableFlags : \A k \in Indices(args) :
            (args[k] = Long(NoPrefix \o <<app.flags[i].name>>) /\ ParserReaches(k)) =>
                /\ parseErr = ErrUnknownLongFlag
                /\ context.Elements = Bound(app, SubSeq(args, 1, k - 1)).elements
                /\ ValuesBound =>
                      flagValue[app.flags[i].name]
                        = Bound(app, SubSeq(args, 1, k - 1)).values[app.flags[i].name]
                /\ (Returned /\ Ran("applyPreActions") /\ ~completion
                      /\ PassErr("applyPreActions") = NoErr)
                    => result = Return("", ErrUnknownLongFlag)

\* C9: Parse(--b --no-b), b an UnNegatableBool, has returned the
\* unknown-long-flag error and b is bound to true by the first token.
C9_Witness ==
    /\ Returned
    /\ args = << Long(<<"b">>), Long(<<"n", "o", "-", "b">>) >>
    /\ result = Return("", ErrUnknownLongFlag)
    /\ flagValue["b"] = TRUE

\* The application was built as MixApp(interspersed).
BuiltAsMixApp(interspersed) == [app EXCEPT !.initialized = FALSE] = MixApp(interspersed)

\* The first raw argument that does not start with "-", 0 when none.
FirstPositional ==
    IF \E i \in Indices(args) : args[i][1] # "-"
    THEN CHOOSE i \in Indices(args) :
            args[i][1] # "-" /\ \A j \in 1..(i - 1) : args[j][1] = "-"
    ELSE 0

\* No "--" comes before raw argument k.
NoSeparatorBefore(k) == \A j \in 1..(k - 1) : args[j] # DashDash

Min(m, n) == IF m <= n THEN m ELSE n

RECURSIVE ElementValues(_)
ElementValues(elements) ==
    IF elements = <<>> THEN <<>>
    ELSE <<Head(elements).value>> \o ElementValues(Tail(elements))

\* With Interspersed(false): the raw arguments from the first positional
\* on are the values of the arguments, as many as there are arguments,
\* whatever they start with; the flag elements are those of the raw
\* arguments before it, and the flag values are bound by those alone.
PositionalsOnlyAfterFirst ==
    (FirstPositional > 0 /\ NoSeparatorBefore(FirstPositional)) =>
        /\ Len(ElementsOf("flag")) = FirstPositional - 1
        /\ \A i, j \in Indices(context.Elements) :
              (i < j /\ context.Elements[i].kind = "arg") => context.Elements[j].kind = "arg"
        /\ ElementValues(ElementsOf("arg"))
              = SubSeq(args, FirstPositional,
                       Min(Len(args), FirstPositional + Len(ContextArgs(app, context)) - 1))
        /\ ValuesBound =>
              \A n \in {"flag", "s"} :
                 flagValue[n] = Bound(app, SubSeq(args, 1, FirstPositional - 1)).values[n]

\* With Interspersed(true): a raw argument --name=value after a positional
\* is matched as a flag, and binds the flag when setValues succeeds.
FlagAfterPositionalMatched ==
    \A k \in Indices(args) :
        (/\ parseErr = NoErr
         /\ IsLongWithValue(args[k])
         /\ NoSeparatorBefore(k)
         /\ FirstPositional > 0 /\ FirstPositional < k) =>
            \E m, n \in Indices(context.Elements) :
                /\ m < n
                /\ context.Elements[m].kind = "arg"
                /\ context.Elements[n].kind = "flag"
                /\ args[k] = LongEq(SubSeq(args[k], 3, IndexOf(args[k], "=") - 1),
                                    context.Elements[n].value)
                /\ (ValuesBound /\ PassErr("setValues") = NoErr
                       /\ context.Elements[n].name = "flag")
                    => flagValue["flag"] = Join(context.Elements[n].value)

\* C10: on the application built with Interspersed(false), once the first
\* positional token is consumed every later raw argument is a positional
\* value, even one that starts with - or --, and matches or modifies no
\* flag; on the application built with Interspersed(true) a flag token
\* after a positional is matched as a flag.
C10_Interspersed ==
    Ran("setDefaults") =>
        /\ BuiltAsMixApp(FALSE) => PositionalsOnlyAfterFirst
        /\ BuiltAsMixApp(TRUE) => FlagAfterPositionalMatched

\* C10: with Interspersed(false), Parse(a1 --flag=flag) has bound a1 to
\* "a1" and a2 to "--flag=flag", and the flag is still empty.
C10_Witness ==
    /\ Returned /\ result.err = NoErr
    /\ BuiltAsMixApp(FALSE)
    /\ args = << <<"a", "1">>, LongEq(<<"f", "l", "a", "g">>, <<"f", "l", "a", "g">>) >>
    /\ argValue["a1"] = "a1"
    /\ argValue["a2"] = "--flag=flag"
    /\ flagValue["flag"] = ""

-----------------------------------------------------------------------------
(* Defaults *)

\* What the converter of clause c makes of its declared defaults, set one
\* after the other on an empty target as tokens would be.
DefaultsOf(c) == SetAll(c.kind, ZeroValue(c.kind), c.defaults).val

\* Clause c of the active command chain declares defaults and was given no
\* element in this Parse.
DefaultDue(kind, c) == c.defaults # <<>> /\ ~HasElement(context, kind, c.name)

\* Every clause of the active chain picked by Due(kind, clause) holds the
\* value Expected(clause).
ClausesHold(Due(_, _), Expected(_)) ==
    /\ \A i \in Indices(ContextFlags(app, context)) :
          Due("flag", ContextFlags(app, context)[i]) =>
             flagValue[ContextFlags(app, context)[i].name]
                = Expected(ContextFlags(app, context)[i])
    /\ \A i \in Indices(ContextArgs(app, context)) :
          Due("arg", ContextArgs(app, context)[i]) =>
             argValue[ContextArgs(app, context)[i].name]
                = Expected(ContextArgs(app, context)[i])

\* setDefaults has run on the context of this Parse, applied its defaults
\* and returned no error.
DefaultsApplied ==
    /\ Ran("setDefaults") /\ PassErr("setDefaults") = NoErr
    /\ ~HasElement(context, "flag", "help")

EnvarUnset(kind, c) == DefaultDue(kind, c) /\ ~HasEnvarValue(app, c)

\* A flag that is not cumulative declares more than one default.
SurplusDefault ==
    \E i \in Indices(app.flags) :
        ~IsCumulative(app.flags[i].kind) /\ Len(app.flags[i].defaults) > 1

SurplusDefaultRejected ==
    (Returned /\ SurplusDefault) => result = Return("", ErrStructural)

EnvarValueOf(c) ==
    IF IsCumulative(c.kind)
    THEN SetAll(c.kind, ZeroValue(c.kind), GetSplitEnvarValue(Getenv(app, c.envar))).val
    ELSE ValueSet(c.kind, ZeroValue(c.kind), Getenv(app, c.envar)).val

EnvarSet(c) == c.envar # "" /\ Getenv(app, c.envar) # <<>>

Unmatched(kind, c) == ~HasElement(context, kind, c.name)

EnvarThenDeclared(c) == IF EnvarSet(c) THEN EnvarValueOf(c) ELSE DefaultsOf(c)
DeclaredThenEnvar(c) == IF c.defaults # <<>> THEN DefaultsOf(c) ELSE EnvarThenDeclared(c)

\* C12 (as amended): default resolution of a clause that received no
\* element uses the bound environment variable when it is set, and the
\* explicit default strings only when no variable is bound or the variable
\* is unset: once setDefaults has run without error, the help flag not
\* being matched, every unmatched clause of the active command chain holds
\* what its converter reads from the variable if set, from its declared
\* defaults otherwise.
C12_EnvarBeforeDeclared == DefaultsApplied => ClausesHold(Unmatched, EnvarThenDeclared)

\* C12: Parse(other) has returned with flag t, which declares a default,
\* holding the value of its variable, and flag m, which has no variable,
\* holding its declared defaults.
C12_Witness ==
    /\ Returned /\ result = Return("other", NoErr)
    /\ Len(args) = 1
    /\ FlagNamed(app, "t").defaults # <<>> /\ EnvarSet(FlagNamed(app, "t"))
    /\ flagValue["t"] = "123"
    /\ flagValue["m"] = <<"d1", "d2">>

\* C12 as stated: every unmatched clause holds its declared defaults when
\* it declares any, and what the variable gives only when it declares none.
C12_AsStated == DefaultsApplied => ClausesHold(Unmatched, DeclaredThenEnvar)

\* Flag f declares a default, its environment variable is set, and it
\* received no element.
DeclaredAndSet(kind, c) ==
    kind = "flag" /\ c.defaults # <<>> /\ EnvarSet(c) /\ Unmatched(kind, c)

\* C13 (as amended): once setDefaults has run without error in a Parse
\* whose matched elements do not include the help flag, an unmatched flag
\* of the active command chain that has both an explicit default and a
\* bound environment variable that is set holds the value of the variable,
\* not the explicit default.
C13_EnvarOverridesDefault == DefaultsApplied => ClausesHold(DeclaredAndSet, EnvarValueOf)

\* C13: Parse(cmd y) has returned with flag t, declared with default "d",
\* holding 123, the value of TEST_ENVAR.
C13_Witness ==
    /\ Returned /\ result = Return("cmd", NoErr)
    /\ Len(args) = 2
    /\ DeclaredAndSet("flag", FlagNamed(app, "t"))
    /\ DefaultsOf(FlagNamed(app, "t")) = "d"
    /\ flagValue["t"] = "123"

\* C13 as stated: whenever Parse succeeds, an unmatched flag that has both
\* an explicit default and a set environment variable holds the value of
\* the variable.
C13_AsStated ==
    (Returned /\ result.err = NoErr) => ClausesHold(DeclaredAndSet, EnvarValueOf)

\* The converter of clause c rejects what default resolution hands it: the
\* value of its variable when set, else one of its declared defaults.
EnvarRejected(c) ==
    IF IsCumulative(c.kind)
    THEN ~SetAll(c.kind, ZeroValue(c.kind), GetSplitEnvarValue(Getenv(app, c.envar))).ok
    ELSE ~ValueSet(c.kind, ZeroValue(c.kind), Getenv(app, c.envar)).ok

DefaultRejected(c) == ~SetAll(c.kind, ZeroValue(c.kind), c.defaults).ok

Rejected(kind, c) ==
    Unmatched(kind, c) /\ (IF EnvarSet(c) THEN EnvarRejected(c) ELSE DefaultRejected(c))

SomeClause(Is(_, _)) ==
    \/ \E i \in Indices(ContextFlags(app, context)) : Is("flag", ContextFlags(app, context)[i])
    \/ \E i \in Indices(ContextArgs(app, context)) : Is("arg", ContextArgs(app, context)[i])

\* Some clause of the application declares a default its converter
\* rejects.
DeclaresRejectedDefault ==
    \/ \E i \in Indices(app.flags) : DefaultRejected(app.flags[i])
    \/ \E i \in Indices(app.args) : DefaultRejected(app.args[i])

\* C14 (as amended): a default string that the converter rejects makes
\* the first Parse return the error of the converter, before any callback
\* or termination, exactly when its clause belongs to the active command
\* chain, received no element and has no set environment variable, and the
\* help flag is not among the matched elements; when the user supplies a
\* value for the clause the default is never converted and setDefaults
\* returns no error for it.
C14_RejectedDefault ==
    Ran("setDefaults") =>
        /\ PassErr("setDefaults") = ErrValue
              <=> (~HasElement(context, "flag", "help") /\ SomeClause(Rejected))
        /\ PassErr("setDefaults") \in {NoErr, ErrValue}
        /\ PassErr("setDefaults") = ErrValue =>
              /\ Returned /\ result = Return("", ErrValue)
              /\ log = <<>>
              /\ pc = "done" => exits = <<>>

\* C14: Parse(cmd) of the application whose flag i declares the default
\* "a" for an int has returned the error of the converter.
C14_Witness ==
    /\ Returned /\ result = Return("", ErrValue)
    /\ args = << <<"c", "m", "d">> >>
    /\ DefaultRejected(FlagNamed(app, "i"))
    /\ PassErr("setDefaults") = ErrValue

\* C14 as stated: the first Parse of an application that declares a
\* default its converter rejects returns an error whatever the argument
\* vector is.
C14_AsStated == (Returned /\ DeclaresRejectedDefault) => result.err # NoErr

-----------------------------------------------------------------------------
(* Structural errors *)

\* Flags f and g share a long name or a short character.
SharesName(f, g) == f.name = g.name \/ (f.short # "" /\ f.short = g.short)

\* Two flags of one group, or a flag of a command and a flag of the
\* application or of an ancestor command, share a name.
DuplicateFlags ==
    \E i, j \in Indices(app.flags) :
        /\ i # j
        /\ SharesName(app.flags[i], app.flags[j])
        /\ \/ app.flags[i].owner = app.flags[j].owner
           \/ \E k \in Indices(app.cmds) :
                 /\ app.flags[j].owner = app.cmds[k].full
                 /\ app.flags[i].owner \in Ancestors(app, app.cmds[k])

\* C15: every Parse of an application in which two flags of one group, or
\* a flag of a command and a flag of the application or of an ancestor
\* command, share a long name or a short character returns a structural
\* error whatever the argument vector is, with no context built, no value
\* bound and no callback dispatched.
C15_DuplicateFlags ==
    DuplicateFlags =>
        /\ pc = "idle" \/ Returned
        /\ Returned =>
              /\ result = Return("", ErrStructural)
              /\ ~app.initialized
              /\ context = <<>> /\ log = <<>>
              /\ pc = "done" => exits = <<>>
              /\ flagValue = ZeroValues(app.flags)

\* C15: the second Parse of the application whose command d declares a
\* flag with the short character of a flag of the application, with a
\* command line that names the command, has returned the structural error.
C15_Witness ==
    /\ Returned /\ calls = 2
    /\ app.Name = "bad" /\ DuplicateFlags
    /\ \E i \in Indices(app.flags) : app.flags[i].owner = "c d"
    /\ \E i \in Indices(app.flags) : app.flags[i].short = "a" /\ app.flags[i].owner = ""
    /\ args = << <<"c">>, <<"d">> >>
    /\ result = Return("", ErrStructural)

-----------------------------------------------------------------------------
(* Termination *)

Zeroes(n) == [i \in 1..n |-> 0]

\* The statuses of the callbacks in the log that are not of the program:
\* 0 for each, after a 1 for the pre-action of the help command when the
\* command path it was given does not parse.
RECURSIVE CallbackStatuses(_, _)
CallbackStatuses(l, helpFails) ==
    IF l = <<>> THEN <<>>
    ELSE (IF Head(l).does = "user" THEN <<>>
          ELSE IF Head(l).owner = "cmd" /\ helpFails THEN <<1, 0>>
          ELSE <<0>>)
         \o CallbackStatuses(Tail(l), helpFails)

\* The command path given to the help command does not parse.
HelpPathFails ==
    /\ Ran("setValues")
    /\ parseContext(app, TRUE, commandOfHelp).err # NoErr

\* The statuses of the short-circuits of this Parse: the callbacks of the
\* help and version clauses, the usage written for each --help, completion.
ShortCircuits(helpFails) ==
    CallbackStatuses(log, helpFails)
    \o (IF Ran("maybeHelp")
        THEN Zeroes(Len(SelectSeq(context.Elements,
                        LAMBDA e : e.kind = "flag" /\ e.name = "help")))
        ELSE <<>>)
    \o (IF Ran("generateBashCompletion") THEN <<0>> ELSE <<>>)

MustParseFailed ==
    pc \in {"returned", "exited in usage", "panicked"} /\ result.err # NoErr

\* The statuses the termination callback was invoked with before Parse
\* returned.
ParseExits ==
    ShortCircuits(HelpPathFails)
       \o (IF result.err = ErrCommandNotSpecified THEN <<0>> ELSE <<>>)

\* Parse ended the process after execute returned CommandNotSpecified.
ExitedForNoCommand ==
    /\ pc = "exited"
    /\ Ran("applyActions") /\ PassErr("applyActions") = NoErr

\* C17 (as amended): when MustParseWithUsage is called and its Parse call
\* returns an error, the termination callback is invoked with status 1
\* after Parse has returned, once or (for an error outside the usage cases,
\* under a callback that returns) twice, and with no other status; it is
\* the first invocation of the call unless Parse itself invoked the
\* callback before returning, for a short-circuit under a callback that
\* returns or for CommandNotSpecified.  When Parse ends the process for
\* CommandNotSpecified the last invocation has status 0.
C17_UsageStatus ==
    /\ MustParseFailed => exits \in {ParseExits \o <<1>>, ParseExits \o <<1, 1>>}
    /\ (MustParseFailed /\ ParseExits = <<>>) => exits[1] = 1
    /\ ExitedForNoCommand => Last(exits) = 0

\* C17: MustParseWithUsage(c0 c1) has written the usage for the missing
\* required flag and invoked the termination callback once, with 1.
C17_Witness ==
    /\ pc = "returned" /\ result = Return("", ErrRequiredFlag)
    /\ app.Name = "cmds" /\ Len(args) = 2
    /\ exits = <<1>>

\* C17 as stated: when the Parse call of MustParseWithUsage fails, the
\* termination callback is invoked with status 1 and its first invocation
\* has status 1.
C17_AsStated ==
    /\ MustParseFailed => (exits # <<>> /\ Last(exits) = 1 /\ exits[1] = 1)
    /\ ExitedForNoCommand => exits[1] = 1

-----------------------------------------------------------------------------
(* The parse with defaults ignored *)

\* A step in which the arguments are parsed again with defaults ignored:
\* by Usage in the pre-action of the help command, by maybeHelp, or by
\* MustParseWithUsage after its Parse call.
ReparseStep == pc \in {"preActions", "help", "done"} /\ calls' = calls

-----------------------------------------------------------------------------
(* Plugin delegation *)

\* The delegated command that ran, and its clauses of one kind in
\* declaration order.
DelegatedCommand == JoinWith(selected, " ")
DelegatedArgs(kind) == MapName(OfKind(ArgsOf(app, DelegatedCommand), kind))
DelegatedFlags(kind) == MapName(OfKind(FlagsOf(app, DelegatedCommand), kind))
ProxiedGlobals == CmdNamed(app, DelegatedCommand).pluginDelegator[1].proxyGlobals

\* The tokens a flag contributes when it is passed on with its value.
TokensOfFlag(k) ==
    CASE FlagNamed(app, k).kind = "string"    -> <<"--" \o k \o "=" \o flagValue[k]>>
      [] FlagNamed(app, k).kind = "strings"   -> Repeated(k, flagValue[k])
      [] FlagNamed(app, k).kind = "bool"      ->
           IF flagValue[k] THEN <<"--" \o k>> ELSE <<"--no-" \o k>>
      [] FlagNamed(app, k).kind = "unnegbool" ->
           IF flagValue[k] THEN <<"--" \o k>> ELSE <<>>

\* The tokens of the flags typed on the command line among names, in the
\* order of names.
TokensOfSet(names) ==
    Appended(names, [k \in SeqToSet(names) |->
                       IF Matched("flag", k) THEN TokensOfFlag(k) ELSE <<>>])

\* The non-empty entries of the arguments among names, in the order of names.
NonEmptyOf(names) ==
    Appended(names, [k \in SeqToSet(names) |->
                       IF ArgNamed(app, k).kind = "strings"
                       THEN SelectSeq(argValue[k], LAMBDA v : v # "")
                       ELSE IF argValue[k] # "" THEN <<argValue[k]>> ELSE <<>>])

\* The argument vector as the reconstruction order gives it: the path
\* below the root command of the plugin, then the eight groups in order.
Reconstructed ==
    Tail(selected) \o NonEmptyOf(DelegatedArgs("string"))
      \o TokensOfSet(DelegatedFlags("string")) \o TokensOfSet(DelegatedFlags("strings"))
      \o TokensOfSet(DelegatedFlags("bool")) \o TokensOfSet(DelegatedFlags("unnegbool"))
      \o TokensOfSet(ProxiedGlobals) \o NonEmptyOf(DelegatedArgs("strings"))

\* C19: the argument vector a delegated plugin command passes to the
\* subprocess is exactly, in this order: the subcommand path segments, the
\* non-empty non-cumulative argument values in declaration order, the set
\* string flags as --name=value, the set cumulative flags as one
\* --name=value per entry, the set negatable booleans as --name or
\* --no-name, the set and true non-negatable booleans as --name, the set
\* proxied global flags as --name=value, and last the non-empty entries
\* of the cumulative arguments.
C19_AsStated == \A i \in 1..Len(spawned) : spawned[i] = Reconstructed

\* C20: a delegated flag (string, cumulative, boolean or proxied global)
\* that the user did not type on the command line contributes no token to
\* the reconstructed plugin argument vector, even when it has a default
\* value or an environment-variable value on the host side.
C20_AsStated ==
    \A i \in 1..Len(spawned) :
      \A k \in SeqToSet(MapName(FlagsOf(app, DelegatedCommand)) \o ProxiedGlobals) :
        ~Matched("flag", k) => SeqToSet(TokensOfFlag(k)) \cap SeqToSet(spawned[i]) = {}

\* The flags of the plugin model named as a global flag of the host.
Colliding ==
    SeqToSet(MapName(PluginModel.flags)) \cap SeqToSet(MapName(FlagsOf(app, "")))

\* C21: a flag of the plugin model named as a global flag of the host
\* application gets no flag of that name on a delegated command and is
\* recorded as a proxy global; the token passed for it carries the current
\* value of the flag of the host, and is passed when the user set the flag.
C21_ProxyGlobal ==
    app.Name = "host" =>
      \A k \in Colliding :
        /\ \A i \in 1..Len(app.flags) : app.flags[i].name = k => app.flags[i].owner = ""
        /\ k \in SeqToSet(CmdNamed(app, PluginModel.name).pluginDelegator[1].proxyGlobals)
        /\ \A j \in 1..Len(spawned) :
             /\ Matched("flag", k) =>
                  ("--" \o k \o "=" \o flagValue[k]) \in SeqToSet(spawned[j])
             /\ \A v \in {"", "1"} :
                  ("--" \o k \o "=" \o v) \in SeqToSet(spawned[j]) => v = flagValue[k]

\* C21: plug sub --g=1 has started the plugin with --g=1, the value of the
\* flag g of the host.
C21_Witness ==
    /\ app.Name = "host" /\ "g" \in Colliding
    /\ args = PluginCommand \o << LongEq(<<"g">>, <<"1">>) >>
    /\ Len(spawned) = 1 /\ "--g=1" \in SeqToSet(spawned[1])
    /\ flagValue["g"] = "1"

-----------------------------------------------------------------------------
(* The IsSetByUser marker *)

\* The IsSetByUser cell of a clause after the parse of this call.
SetByUser(kind, name) == context # <<>> /\ <<kind, name>> \in context.setByUser

\* The argument vector holds a token that names the flag: --name, or its
\* short character in a token of short flags.
TypedFlag(name) ==
    \E i \in Indices(args) :
      \/ HasPrefix(args[i], DashDash) /\ Join(SubSeq(args[i], 3, Len(args[i]))) = name
      \/ /\ ~HasPrefix(args[i], DashDash) /\ Len(args[i]) >= 2 /\ args[i][1] = "-"
         /\ FlagNamed(app, name).short # ""
         /\ \E j \in 2..Len(args[i]) : args[i][j] = FlagNamed(app, name).short

-----------------------------------------------------------------------------
(* The order of the stages *)

\* Passes i and j > i belong to one Parse call: no call began in between.
SameCall(i, j) == \A k \in (i + 1)..j : passes[k].pass # "ParseContext"

\* Pass j ran after pass i of the same call had returned an error.
RanAfterFailure(i, j) ==
    i < j /\ SameCall(i, j) /\ passes[i].err # NoErr

\* C23 (as amended): a Parse call stops at the first failing stage among
\* setDefaults, the pre-actions, required validation, the validators and
\* the actions: no later stage runs in that call.  A parser error does not
\* stop the call at once: setDefaults, setValues and the pre-actions (and
\* in completion mode the completion) still run before it is returned; and
\* after an error of setValues the pre-actions and maybeHelp (or the
\* completion) still run.
C23_StopsAtFailure ==
    \A i, j \in Indices(passes) :
      RanAfterFailure(i, j) =>
        \/ /\ passes[i].pass = "ParseContext"
           /\ passes[j].pass \in {"setDefaults", "setValues", "applyPreActions",
                                  "generateBashCompletion"}
        \/ /\ passes[i].pass = "setValues"
           /\ passes[j].pass \in {"applyPreActions", "maybeHelp", "generateBashCompletion"}

\* C23: the parser has failed; setDefaults, setValues and the pre-action
\* P of the application have run all the same, and Parse has returned the
\* error of the parser.
C23_Witness ==
    /\ pc = "done" /\ app.Name = "cmds"
    /\ parseErr # NoErr /\ result = Return("", parseErr)
    /\ Ran("setDefaults") /\ Ran("setValues") /\ Ran("applyPreActions")
    /\ log = << Callback("pre", "app", "P", "user") >>

\* C23 (as stated): once a stage of Parse has failed, parsing and
\* setValues included, no later stage is executed in that call.
C23_AsStated ==
    \A i, j \in Indices(passes) : ~RanAfterFailure(i, j)

-----------------------------------------------------------------------------
(* Structural validation, once *)

\* C24: structural validation is performed once per application and its
\* outcome, success or violation, is cached: a Parse call after the first
\* does not run init again, and so does not register the help command
\* again: it leaves the clauses of the application as they were.
C24_AsStated ==
    [][(calls >= 1 /\ calls' = calls + 1) => app' = app]_vars

\* C29: when init fails, ParseContext returns a nil context and Parse
\* returns the empty command with the error of init; the call has changed
\* no bound value target, applied no default, dispatched no pre-action,
\* validator or action, started no subprocess and not invoked the
\* termination callback.
C29_InitFailureFrame ==
    (calls >= 1 /\ ~app.initialized) =>
      /\ context = <<>>
      /\ Returned /\ result = Return("", ErrStructural)
      /\ \A i \in Indices(passes) : passes[i] = Pass("ParseContext", ErrStructural)
      /\ flagValue = ZeroValues(app.flags)
      /\ argValue = ZeroValues(Append(app.args, HelpCommandArg))
      /\ log = <<>> /\ spawned = <<>>
      /\ pc = "done" => exits = <<>>

\* C29: Parse(x) has returned the error of init on an application that
\* declares an argument next to a command.
C29_Witness ==
    /\ pc = "done" /\ calls = 1 /\ args = << <<"c">> >>
    /\ app.Name = "bad" /\ ArgsOf(app, "") # <<>> /\ CmdHave(app, "")
    /\ ~app.initialized /\ context = <<>>
    /\ result = Return("", ErrStructural)

-----------------------------------------------------------------------------
(* The error returned *)

\* The error pass name returned in this call, nil when it did not run.
ErrOf(name) == IF Ran(name) THEN PassErr(name) ELSE NoErr

\* A callback of the application, or of a clause that an element matched.
Due(cb) == cb.owner = "app" \/ (context # <<>> /\ HasElement(context, cb.owner, cb.name))

\* The error of the callback of a phase that is due and returns one, nil
\* when there is none (the applications under test have one failing
\* callback at most).
FailureOf(phase) ==
    IF \E cb \in app.failing : cb.phase = phase /\ Due(cb)
    THEN ErrCallback(CHOOSE cb \in app.failing : cb.phase = phase /\ Due(cb))
    ELSE NoErr

\* The failures that apply to the call, in the order of the claim, each
\* with its error: the error of init; of setDefaults; of a pre-action; of
\* the parser; a token left over; the error of setValues; a required flag
\* and then a required argument left unsatisfied; the error of a validator;
\* of an action; no command selected where there are commands.
Failures ==
    << IF context = <<>> THEN ErrOf("ParseContext") ELSE NoErr,
       ErrOf("setDefaults"),
       FailureOf("pre"),
       parseErr,
       IF context # <<>> /\ ~EOL(app, context) THEN ErrUnexpectedArgument ELSE NoErr,
       setValuesErr,
       IF context # <<>> /\ UnsatisfiedFlag THEN ErrRequiredFlag ELSE NoErr,
       IF context # <<>> /\ UnsatisfiedArg THEN ErrRequiredArgument ELSE NoErr,
       FailureOf("validate"),
       FailureOf("act"),
       IF selected = <<>> /\ CmdHave(app, "") THEN ErrCommandNotSpecified ELSE NoErr >>

\* The first failure that applies, nil when none does.
FirstFailure ==
    IF \A i \in Indices(Failures) : Failures[i] = NoErr THEN NoErr
    ELSE Failures[CHOOSE i \in Indices(Failures) :
                    Failures[i] # NoErr /\ \A j \in 1..(i - 1) : Failures[j] = NoErr]

\* C25: a Parse call that is not a completion returns the first failure
\* that applies, in this order: structural (init) error; setDefaults
\* error; pre-action error; parser error; unexpected trailing argument;
\* setValues error; RequiredFlag; RequiredArgument; validator error;
\* action error; CommandNotSpecified.
C25_FirstFailure ==
    (pc = "done" /\ ~completion) => result.err = FirstFailure

\* C25: the parser has failed on a token that names no command and the
\* pre-action P of the application has failed too: Parse has returned the
\* error of P.
C25_Witness ==
    /\ pc = "done" /\ app.Name = "cmds" /\ ~completion
    /\ parseErr # NoErr
    /\ ErrOf("applyPreActions") = ErrCallback(Callback("pre", "app", "P", "user"))
    /\ result = Return("", ErrOf("applyPreActions"))

-----------------------------------------------------------------------------
(* Actions and the error returned *)

\* The error Parse has returned is the one an Action callback returned.
OwnError ==
    \E i \in Indices(log) :
        log[i].phase = "act" /\ Failed(log[i]) /\ result.err = ErrCallback(log[i])

\* C26 (as amended): when Parse has returned an error that is neither the
\* one an Action returned nor ErrCommandNotSpecified, no Action callback was
\* dispatched in that call; when it has returned ErrCommandNotSpecified, the
\* actions of the application and of the matched elements were all
\* dispatched before, and none of them returned an error.
C26_NoActionBeforeError ==
    (pc = "done" /\ result.err # NoErr) =>
        IF result.err = ErrCommandNotSpecified
        THEN /\ Dispatched("act") =
                  AppCallbacks("act", app.actions) \o ElementActions(app, context.Elements)
             /\ \A i \in Indices(log) : ~Failed(log[i])
        ELSE OwnError \/ Dispatched("act") = <<>>

\* C26: Parse(--v) on the application with commands has dispatched the
\* actions A1 and A2 of the application and the action of flag v, and has
\* then returned ErrCommandNotSpecified.
C26_Witness ==
    /\ pc = "done" /\ app.Name = "cmds"
    /\ result = Return("", ErrCommandNotSpecified)
    /\ Dispatched("act") = << Callback("act", "app", "A1", "user"),
                              Callback("act", "app", "A2", "user"),
                              Callback("act", "flag", "v", "user") >>

\* C26 as stated: when Parse has returned an error that is not the one an
\* Action returned, ErrCommandNotSpecified included, no Action callback was
\* dispatched in that call.
C26_AsStated ==
    (pc = "done" /\ result.err # NoErr /\ ~OwnError) => Dispatched("act") = <<>>

-----------------------------------------------------------------------------
(* Completion mode *)

\* C27 (as amended): once setValues has set the completion flag, Parse
\* dispatches the pre-actions of the application only, up to the first one
\* that returns an error; it runs no pre-action of a matched element, no
\* maybeHelp, no required validation, no validator and no action.  When a
\* pre-action of the application has returned an error, Parse returns that
\* error and terminate is not called; otherwise terminate is called once,
\* with status 0, and Parse returns an empty command and no error,
\* whatever the parser and setValues returned.
C27_CompletionMode ==
    (completion /\ Ran("applyPreActions")) =>
        /\ IsPrefix(log, AppCallbacks("pre", app.preActions))
        /\ \A name \in {"maybeHelp", "validateRequired", "applyValidators",
                          "applyActions"} : ~Ran(name)
        /\ pc = "done" =>
              IF PassErr("applyPreActions") # NoErr
              THEN result = Return("", PassErr("applyPreActions")) /\ exits = <<>>
              ELSE result = Return("", NoErr) /\ exits = <<0>>

\* C27: Parse(--v, --completion-bash) on the application with commands,
\* where flag v has a pre-action: only the pre-action P of the application
\* was dispatched, terminate(0) was called once, and Parse has returned
\* ("", nil).
C27_Witness ==
    /\ pc = "done" /\ app.Name = "cmds" /\ completion
    /\ HasElement(context, "flag", "v")
    /\ log = <<Callback("pre", "app", "P", "user")>>
    /\ exits = <<0>>
    /\ result = Return("", NoErr)

\* C27 as stated: once the completion flag is set, Parse calls
\* terminate(0) exactly once and returns ("", nil).
C27_AsStated ==
    (completion /\ pc = "done") =>
        /\ IsPrefix(log, AppCallbacks("pre", app.preActions))
        /\ exits = <<0>>
        /\ result = Return("", NoErr)

-----------------------------------------------------------------------------
(* The help flag *)

\* The statuses terminate was called with by the pre-actions of this
\* Parse, and whether one of those calls ended the process.
PreActionExits == applyPreActions(app, context, TRUE, <<>>, <<>>)

\* The statuses maybeHelp calls terminate with: 0 for every help-flag
\* element while terminate returns.
HelpExits ==
    LET help == SelectSeq(context.Elements,
                          LAMBDA e : e.kind = "flag" /\ e.name = "help")
    IN IF app.terminateReturns THEN [i \in 1..Len(help) |-> 0] ELSE <<0>>

\* The help flag is among the matched elements of a Parse that is not a
\* completion and has come past the pre-actions: neither the parser nor a
\* pre-action returned an error or ended the process.
HelpDue ==
    /\ Matched("flag", "help")
    /\ ~completion
    /\ parseErr = NoErr
    /\ Ran("applyPreActions") /\ PassErr("applyPreActions") = NoErr
    /\ ~PreActionExits.exited
    /\ pc # "help"

\* C28 (as amended): when the help flag is among the matched elements, the
\* parser and the pre-actions returned no error and the call is not a
\* completion, maybeHelp calls terminate(0) once for every help element
\* while terminate returns; if it returns, Parse goes on: it returns
\* ErrUnexpectedArgument when a token is left over, else the error of
\* setValues if any, else it runs required validation, and when that and
\* the validators return no error the actions are dispatched.
C28_HelpGoesOn ==
    HelpDue =>
        /\ Ran("maybeHelp")
        /\ IsPrefix(PreActionExits.exits \o HelpExits, exits)
        /\ ~app.terminateReturns => pc \in {"exited", "exited in usage"}
        /\ app.terminateReturns =>
              IF ~EOL(app, context)
              THEN Returned /\ result = Return("", ErrUnexpectedArgument)
              ELSE IF setValuesErr # NoErr
              THEN Returned /\ result = Return("", setValuesErr)
              ELSE /\ pc = "validateRequired" \/ Ran("validateRequired")
                   /\ (/\ Returned
                       /\ validateRequired(app, context) = NoErr
                       /\ PassErr("applyValidators") = NoErr) => Ran("applyActions")

\* C28: Parse(--help, d) with a terminate that returns: terminate(0) was
\* called once by maybeHelp, and Parse went on to dispatch the action of
\* command d and returned d.
C28_Witness ==
    /\ pc = "done" /\ app.Name = "cmds" /\ app.terminateReturns
    /\ HelpDue
    /\ exits = <<0>>
    /\ result = Return("d", NoErr)
    /\ \E i \in Indices(log) : log[i] = Callback("act", "cmd", "d", "user")

\* C28 as stated: whenever the help flag is among the matched elements of
\* a Parse that has returned, maybeHelp has run and terminate(0) was
\* called once for every help element.
C28_AsStated ==
    (Matched("flag", "help") /\ pc = "done") =>
        /\ Ran("maybeHelp")
        /\ IsPrefix(PreActionExits.exits \o HelpExits, exits)

-----------------------------------------------------------------------------
(* The flags of the selected path *)

\* The commands of the selected path, from the root command of the plugin
\* down to the delegated command that ran.
SelectedPath == {JoinWith(SubSeq(selected, 1, n), " ") : n \in 1..Len(selected)}

\* The names of the flags declared on the commands of the selected path.
PathFlags ==
    {app.flags[i].name : i \in {j \in 1..Len(app.flags) : app.flags[j].owner \in SelectedPath}}

\* C30: when a delegated leaf command has run, every flag declared on the
\* leaf, on a delegated ancestor or on the root command of the plugin that
\* the user typed on the command line has its tokens in the argument
\* vector passed to the plugin.
C30_AsStated ==
    \A i \in 1..Len(spawned) :
      \A k \in PathFlags :
        Matched("flag", k) => SeqToSet(TokensOfFlag(k)) \subseteq SeqToSet(spawned[i])

====
